---- MODULE Spec2Model ----
(***************************************************************************)
(* Section segmentation of MSDS documents                                  *)
(* (src/msds_section_extractor_all.py) and the upload batch loop           *)
(* (src/msds_pages/msds_upload_page.py).                                   *)
(*                                                                         *)
(* Text is modelled character by character: a string is a sequence of      *)
(* one-character tokens.  ASCII characters stand for themselves, a Hangul  *)
(* syllable is written in romanised form ("hwa" for U+D654; the silent     *)
(* initial is written q, so every syllable has at least two letters), and  *)
(* the other non-ASCII characters have upper-case names ("NBSP").          *)
(* Regular expressions are values of a small regex algebra and are matched *)
(* by position sets, so a search in the model succeeds exactly where the   *)
(* regular expression of the source has a match.                           *)
(***************************************************************************)
EXTENDS Naturals, Integers, Sequences, FiniteSets

\* ------------------------------------------------------------------------
\* Characters
\* ------------------------------------------------------------------------
NL == "\n"
DigitChars == {"0", "1", "2", "3", "4", "5", "6", "7", "8", "9"}
\* \s of Python's re on str: NBSP is white space, the zero-width space is not
SpaceChars == {" ", "\t", NL, "NBSP"}
\* [\u00A0\u2000-\u200B]: the characters every matcher first replaces by " "
SpecialSpaceChars == {"NBSP", "ZWSP"}
\* the punctuation of the alphabet (everything that is neither \w nor Hangul)
PunctChars == {".", ")", "(", ":", "-", "[", "]", "/", ",", "SQUOTE", "DQUOTE", "BACKTICK",
               "MIDDOT", "KMIDDOT", "FWCOLON", "FWDOT", "IDEOSTOP", "FWSLASH",
               "BULLET", "BOM"}
\* [\w\uAC00-\uD7A3] : letters, digits and Hangul syllables
IsWordChar(c) == c \notin (SpaceChars \cup SpecialSpaceChars \cup PunctChars)

Lower(c) ==
    CASE c = "A" -> "a" [] c = "B" -> "b" [] c = "C" -> "c" [] c = "D" -> "d"
      [] c = "E" -> "e" [] c = "F" -> "f" [] c = "G" -> "g" [] c = "H" -> "h"
      [] c = "I" -> "i" [] c = "J" -> "j" [] c = "K" -> "k" [] c = "L" -> "l"
      [] c = "M" -> "m" [] c = "N" -> "n" [] c = "O" -> "o" [] c = "P" -> "p"
      [] c = "Q" -> "q" [] c = "R" -> "r" [] c = "S" -> "s" [] c = "T" -> "t"
      [] c = "U" -> "u" [] c = "V" -> "v" [] c = "W" -> "w" [] c = "X" -> "x"
      [] c = "Y" -> "y" [] c = "Z" -> "z" [] OTHER -> c

\* ------------------------------------------------------------------------
\* Strings (sequences of characters)
\* ------------------------------------------------------------------------
Min(S) == CHOOSE x \in S : \A y \in S : x <= y
Max(S) == CHOOSE x \in S : \A y \in S : y <= x

\* the elements of xs at the places in S, in order
AtPlaces(xs, S) ==
    LET n == Cardinality(S)
        nth(j) == CHOOSE i \in S : Cardinality({k \in S : k <= i}) = j
    IN  SubSeq([j \in 1..n |-> xs[nth(j)]], 1, n)

\* the characters of s that are not in the set drop, in order
Filter(s, drop) == AtPlaces(s, {i \in DOMAIN s : s[i] \notin drop})

\* str.lower()
LowerStr(s) == [i \in DOMAIN s |-> Lower(s[i])]

\* re.sub(r"[\u00A0\u2000-\u200B]", " ", s)
FlattenSpaces(s) == [i \in DOMAIN s |-> IF s[i] \in SpecialSpaceChars THEN " " ELSE s[i]]

\* str.strip()
RECURSIVE LStrip(_)
LStrip(s) == IF s # <<>> /\ Head(s) \in SpaceChars THEN LStrip(Tail(s)) ELSE s
RECURSIVE RStrip(_)
RStrip(s) ==
    IF s # <<>> /\ s[Len(s)] \in SpaceChars THEN RStrip(SubSeq(s, 1, Len(s) - 1)) ELSE s
Strip(s) == LStrip(RStrip(s))

\* w occurs in s at position p
HasAt(s, p, w) == p + Len(w) - 1 <= Len(s) /\ \A i \in 1..Len(w) : s[p + i - 1] = w[i]
\* w in s
Contains(s, w) == \E p \in 1..(Len(s) + 1) : HasAt(s, p, w)

RECURSIVE Join(_)
\* "\n".join(lines)
Join(lines) ==
    IF lines = <<>> THEN <<>>
    ELSE IF Len(lines) = 1 THEN lines[1]
         ELSE lines[1] \o <<NL>> \o Join(Tail(lines))

\* text.split("\n"): the pieces between the newlines, the empty ones too
Split(s) ==
    LET cuts == {i \in DOMAIN s : s[i] = NL}
        \* the place of the k-th newline; 0 before the first piece and
        \* Len(s) + 1 after the last
        cut(k) == IF k = 0 THEN 0
                  ELSE IF k > Cardinality(cuts) THEN Len(s) + 1
                  ELSE CHOOSE i \in cuts : Cardinality({j \in cuts : j <= i}) = k
        n == Cardinality(cuts) + 1
    IN  SubSeq([k \in 1..n |-> SubSeq(s, cut(k - 1) + 1, cut(k) - 1)], 1, n)

\* text[:p].count("\n") for the 1-based position p of the model
LineIndexOf(s, p) == Cardinality({i \in 1..(p - 1) : s[i] = NL})

\* ------------------------------------------------------------------------
\* Regular expressions
\* ------------------------------------------------------------------------
Lit(w) == [op |-> "lit", w |-> w]
Cls(S) == [op |-> "cls", s |-> S]
Cat(rs) == [op |-> "cat", rs |-> rs]
Alt(rs) == [op |-> "alt", rs |-> rs]
Opt(r) == [op |-> "opt", r |-> r]
Star(r) == [op |-> "star", r |-> r]
Plus(r) == Cat(<<r, Star(r)>>)
Bol == [op |-> "bol"]
Eol == [op |-> "eol"]
Dot == [op |-> "dot"]
\* \b
WordB == [op |-> "wb"]
\* \d{1,2}
Digit12 == Cat(<<Cls(DigitChars), Opt(Cls(DigitChars))>>)

\* re.IGNORECASE, re.MULTILINE
Flags(ic, ml) == [ic |-> ic, ml |-> ml]

LitAt(s, p, w, ic) ==
    /\ p + Len(w) - 1 <= Len(s)
    /\ \A i \in 1..Len(w) :
          IF ic THEN Lower(s[p + i - 1]) = Lower(w[i]) ELSE s[p + i - 1] = w[i]

RECURSIVE Ends(_, _, _, _)
RECURSIVE EndsCat(_, _, _, _, _)
RECURSIVE EndsStar(_, _, _, _)
\* the positions at which a match of re that starts at a position of P can end
Ends(s, P, re, fl) ==
    IF P = {} THEN {}
    ELSE CASE re.op = "lit" -> {p + Len(re.w) : p \in {q \in P : LitAt(s, q, re.w, fl.ic)}}
           [] re.op = "cls" -> {p + 1 : p \in {q \in P : q <= Len(s) /\ s[q] \in re.s}}
           [] re.op = "dot" -> {p + 1 : p \in {q \in P : q <= Len(s) /\ s[q] # NL}}
           [] re.op = "cat" -> EndsCat(s, P, re.rs, 1, fl)
           [] re.op = "alt" -> UNION {Ends(s, P, re.rs[i], fl) : i \in DOMAIN re.rs}
           [] re.op = "opt" -> P \cup Ends(s, P, re.r, fl)
           [] re.op = "star" -> EndsStar(s, P, re.r, fl)
           [] re.op = "bol" -> {p \in P : p = 1 \/ (fl.ml /\ s[p - 1] = NL)}
           [] re.op = "eol" -> {p \in P : p = Len(s) + 1 \/ (fl.ml /\ s[p] = NL)}
           [] re.op = "wb" -> {p \in P : (p > 1 /\ IsWordChar(s[p - 1]))
                                             # (p <= Len(s) /\ IsWordChar(s[p]))}
EndsCat(s, P, rs, i, fl) ==
    IF i > Len(rs) THEN P
    ELSE LET Q == Ends(s, P, rs[i], fl)
         IN  IF Q = {} THEN {} ELSE EndsCat(s, Q, rs, i + 1, fl)
EndsStar(s, P, r, fl) ==
    LET new == Ends(s, P, r, fl) \ P
    IN  IF new = {} THEN P ELSE EndsStar(s, P \cup new, r, fl)

\* a match of re starts at position p
MatchesAt(s, p, re, fl) == Ends(s, {p}, re, fl) # {}
\* the positions where a match can start; re.search takes the first
MatchStarts(s, re, fl) == {p \in 1..(Len(s) + 1) : MatchesAt(s, p, re, fl)}
\* re.search(re, s) is not None, for a pattern that begins with ^ and is used
\* without re.MULTILINE: the only start is the beginning of the string
SearchBol(s, re, ic) == MatchesAt(s, 1, re, Flags(ic, FALSE))
\* re.search(re, s) is not None
Search(s, re, fl) == Ends(s, 1..(Len(s) + 1), re, fl) # {}

\* ------------------------------------------------------------------------
\* Number prefixes and separators (sep, WS, sec)
\* ------------------------------------------------------------------------
\* WS: [\s\u00A0\u2000-\u200B]
WSChars == SpaceChars \cup SpecialSpaceChars
\* sep: [\s\u00A0\u2000-\u200B\.\-(middle dots),(full-width slash)/]
SepChars == WSChars \cup {".", "-", "MIDDOT", "KMIDDOT", ",", "FWSLASH", "/"}
\* [\.\)\-:(full-width colon, full stop)(ideographic full stop)]
PuncChars == {".", ")", "-", ":", "FWCOLON", "FWDOT", "IDEOSTOP"}
\* lead: [\s\u00A0\u2000-\u200B(backtick)\uFEFF(quotes)(middle dot)(bullet)(dashes)-]
LeadChars == WSChars \cup {"BACKTICK", "BOM", "DQUOTE", "SQUOTE", "MIDDOT", "BULLET", "-"}

sep == Star(Cls(SepChars))
WS == Star(Cls(WSChars))

DigitOf(d) ==
    CASE d = 0 -> "0" [] d = 1 -> "1" [] d = 2 -> "2" [] d = 3 -> "3" [] d = 4 -> "4"
      [] d = 5 -> "5" [] d = 6 -> "6" [] d = 7 -> "7" [] d = 8 -> "8" [] d = 9 -> "9"
\* str(n), as the f-string of sec writes it
Digits(n) == IF n < 10 THEN <<DigitOf(n)>> ELSE <<DigitOf(n \div 10), DigitOf(n % 10)>>

\* ^lead(?:\[?n\]?|n WS (?:punc)? WS|je? WS n WS [jang hang])WS
sec(n) ==
    Cat(<<Bol, Star(Cls(LeadChars)),
          Alt(<<Cat(<<Opt(Lit(<<"[">>)), Lit(Digits(n)), Opt(Lit(<<"]">>))>>),
                Cat(<<Lit(Digits(n)), WS, Opt(Cls(PuncChars)), WS>>),
                Cat(<<Opt(Lit(<<"je">>)), WS, Lit(Digits(n)), WS, Cls({"jang", "hang"})>>)>>),
          WS>>)

\* ------------------------------------------------------------------------
\* The section catalogue (SECNUM, PROB_KEYS, ALL_SECTION_KEYS, ...)
\* A section key is written k<number>:
\*   k1   화학제품과_회사정보   (1. 화학제품과 회사에 관한 정보)
\*   k2   유해성위험성   (2. 유해성·위험성)
\*   k3   구성성분   (3. 구성성분의 명칭 및 함유량)
\*   k4   응급조치요령   (4. 응급조치요령)
\*   k5   폭발화재시대처방법   (5. 폭발·화재 시 대처방법)
\*   k6   누출사고시대처방법   (6. 누출사고 시 대처방법)
\*   k7   취급및저장방법   (7. 취급 및 저장방법)
\*   k8   노출방지및개인보호구   (8. 노출방지 및 개인보호구)
\*   k9   물리화학적특성   (9. 물리 화학적 특성/특징)
\*   k10  안정성및반응성   (10. 안정성 및 반응성)
\*   k11  독성에관한정보   (11. 독성에 관한 정보)
\*   k12  환경에미치는영향   (12. 환경에 미치는 영향)
\*   k13  폐기시주의사항   (13. 폐기 시 주의사항)
\*   k14  운송에필요한사항   (14. 운송에 필요한 사항)
\*   k15  법적규제   (15. 법적 규제현황)
\*   k16  기타참고사항   (16. 기타/그 밖의 참고사항)
\* ------------------------------------------------------------------------
SECNUM == [k1 |-> 1, k2 |-> 2, k3 |-> 3, k4 |-> 4, k5 |-> 5, k6 |-> 6, k7 |-> 7, k8 |-> 8, k9 |-> 9, k10 |-> 10, k11 |-> 11, k12 |-> 12, k13 |-> 13, k14 |-> 14, k15 |-> 15, k16 |-> 16]

ALL_SECTION_KEYS == <<"k1", "k2", "k3", "k4", "k5", "k6", "k7", "k8", "k9", "k10", "k11", "k12", "k13", "k14", "k15", "k16">>

\* PROB_KEYS[n] = (must, also)
PROB_KEYS ==
    <<
       [must |-> <<<<"hwa", "hag">>, <<"je", "pum">>, <<"hoe", "sa">>, <<"jeong", "bo">>, <<"je", "pum", "myeong">>>>,
        also |-> <<<<"je", "pum">>, <<"hoe", "sa">>, <<"jeong", "bo">>>>],
       [must |-> <<<<"qyu", "hae">>, <<"qwi", "heom">>>>,
        also |-> <<<<"qyu", "hae", "seong">>, <<"qwi", "heom", "seong">>, <<"qyu", "hae", "qwi", "heom">>>>],
       [must |-> <<<<"gu", "seong">>, <<"seong", "bun">>, <<"ham", "ryang">>, <<"ham", "qyu">>, <<"jo", "seong">>>>,
        also |-> <<<<"seong", "bun">>, <<"ham", "ryang">>, <<"ham", "qyu">>, <<"jo", "seong">>>>],
       [must |-> <<<<"qeung", "geub">>, <<"jo", "chi">>>>,
        also |-> <<<<"qeung", "geub", "jo", "chi">>, <<"jo", "chi", "qyo", "ryeong">>>>],
       [must |-> <<<<"pog", "bal">>, <<"hwa", "jae">>>>,
        also |-> <<<<"pog", "bal">>, <<"hwa", "jae">>, <<"dae", "cheo">>>>],
       [must |-> <<<<"nu", "chul">>, <<"sa", "go">>>>,
        also |-> <<<<"nu", "chul">>, <<"qyu", "chul">>, <<"dae", "cheo">>>>],
       [must |-> <<<<"chwi", "geub">>, <<"jeo", "jang">>>>,
        also |-> <<<<"chwi", "geub">>, <<"jeo", "jang">>, <<"bo", "gwan">>>>],
       [must |-> <<<<"no", "chul">>, <<"bo", "ho", "gu">>>>,
        also |-> <<<<"no", "chul">>, <<"bang", "ji">>, <<"gae", "qin">>, <<"bo", "ho", "gu">>>>],
       [must |-> <<<<"mul", "ri">>, <<"hwa", "hag">>, <<"teug", "seong">>, <<"teug", "jing">>>>,
        also |-> <<<<"mul", "ri", "hwa", "hag">>, <<"teug", "seong">>, <<"teug", "jing">>>>],
       [must |-> <<<<"qan", "jeong">>, <<"ban", "qeung">>>>,
        also |-> <<<<"qan", "jeong", "seong">>, <<"ban", "qeung", "seong">>>>],
       [must |-> <<<<"dog", "seong">>>>,
        also |-> <<<<"dog", "seong">>, <<"dog", "seong", "jeong", "bo">>>>],
       [must |-> <<<<"hwan", "gyeong">>>>,
        also |-> <<<<"hwan", "gyeong">>, <<"qyeong", "hyang">>>>],
       [must |-> <<<<"pye", "gi">>>>,
        also |-> <<<<"pye", "gi">>, <<"ju", "qui">>>>],
       [must |-> <<<<"qun", "song">>>>,
        also |-> <<<<"qun", "song">>, <<"sa", "hang">>>>],
       [must |-> <<<<"beob", "jeog">>, <<"beob", "gyu">>>>,
        also |-> <<<<"gyu", "je">>, <<"gyu", "jye">>, <<"gyu", "je", "hyeon", "hwang">>, <<"gyu", "jye", "hyeon", "hwang">>>>],
       [must |-> <<<<"cham", "go">>, <<"sa", "hang">>>>,
        also |-> <<<<"gi", "ta">>, <<"geu", " ", "bakk", "qui">>, <<"cham", "go", "sa", "hang">>>>]
    >>

FUZZY_CANDIDATES ==
    [ k1 |-> <<<<"hwa", "hag", " ", "je", "pum", "gwa", " ", "hoe", "sa">>,
              <<"hwa", "hag", "je", "pum">>,
              <<"hwa", "hag", " ", "hoe", "sa">>,
              <<"hoe", "sa", " ", "jeong", "bo">>>>,
      k2 |-> <<<<"qyu", "hae", " ", "qwi", "heom", "seong">>,
              <<"qwi", "heom", " ", "qyu", "hae", "seong">>,
              <<"qyu", "hae", "seong">>,
              <<"qwi", "heom", "seong">>,
              <<"qyu", "hae", " ", "qwi", "heom">>>>,
      k3 |-> <<<<"gu", "seong", " ", "seong", "bun">>,
              <<"seong", "bun", "pyo">>,
              <<"seong", "bun", " ", "ham", "qyu", "ryang">>,
              <<"seong", "bun", " ", "ham", "ryang">>,
              <<"jo", "seong", " ", "seong", "bun">>>>,
      k4 |-> <<<<"qeung", "geub", "jo", "chi", "qyo", "ryeong">>,
              <<"qeung", "geub", " ", "jo", "chi", " ", "qyo", "ryeong">>,
              <<"qeung", "geub", "jo", "chi">>,
              <<"qeung", "geub", " ", "jo", "chi">>>>,
      k5 |-> <<<<"pog", "bal", " ", "hwa", "jae", " ", "si", " ", "dae", "cheo", "bang", "beob">>,
              <<"pog", "bal", " ", "mich", " ", "hwa", "jae", "si", " ", "dae", "cheo", "bang", "beob">>,
              <<"pog", "bal", " ", "hwa", "jae", " ", "dae", "cheo">>,
              <<"hwa", "jae", " ", "pog", "bal", " ", "jo", "chi">>>>,
      k6 |-> <<<<"nu", "chul", "sa", "go", "si", " ", "dae", "cheo", "bang", "beob">>,
              <<"nu", "chul", " ", "sa", "go", " ", "dae", "cheo">>,
              <<"qyu", "chul", "sa", "go", " ", "dae", "cheo">>>>,
      k7 |-> <<<<"chwi", "geub", " ", "mich", " ", "jeo", "jang", "bang", "beob">>,
              <<"chwi", "geub", " ", "mich", " ", "bo", "gwan">>,
              <<"jeo", "jang", "bang", "beob">>>>,
      k8 |-> <<<<"no", "chul", "bang", "ji", " ", "mich", " ", "gae", "qin", "bo", "ho", "gu">>,
              <<"no", "chul", " ", "bang", "ji">>,
              <<"gae", "qin", " ", "bo", "ho", "gu">>>>,
      k9 |-> <<<<"mul", "ri", " ", "hwa", "hag", "jeog", " ", "teug", "seong">>,
              <<"mul", "ri", " ", "hwa", "hag", "jeog", " ", "teug", "jing">>,
              <<"mul", "ri", ".", " ", "hwa", "hag", "jeog", " ", "teug", "seong">>,
              <<"mul", "ri", "MIDDOT", "hwa", "hag", "jeog", " ", "teug", "seong">>>>,
      k10 |-> <<<<"qan", "jeong", "seong", " ", "mich", " ", "ban", "qeung", "seong">>,
              <<"qan", "jeong", "seong">>,
              <<"ban", "qeung", "seong">>>>,
      k11 |-> <<<<"dog", "seong", "qe", " ", "gwan", "han", " ", "jeong", "bo">>,
              <<"dog", "seong", " ", "jeong", "bo">>,
              <<"dog", "seong">>>>,
      k12 |-> <<<<"hwan", "gyeong", "qe", " ", "mi", "chi", "neun", " ", "qyeong", "hyang">>,
              <<"hwan", "gyeong", " ", "qyeong", "hyang">>>>,
      k13 |-> <<<<"pye", "gi", "si", " ", "ju", "qui", "sa", "hang">>,
              <<"pye", "gi", " ", "si", " ", "ju", "qui", "sa", "hang">>,
              <<"pye", "gi", " ", "bang", "beob">>>>,
      k14 |-> <<<<"qun", "song", "qe", " ", "pil", "qyo", "han", " ", "sa", "hang">>,
              <<"qun", "song", "qe", " ", "gwan", "han", " ", "sa", "hang">>,
              <<"qun", "song", " ", "sa", "hang">>>>,
      k15 |-> <<<<"beob", "jeog", " ", "gyu", "je">>,
              <<"beob", "jeog", " ", "gyu", "je", " ", "hyeon", "hwang">>,
              <<"beob", "gyu", " ", "gyu", "je">>,
              <<"beob", "gyu", " ", "gyu", "je", " ", "hyeon", "hwang">>>>,
      k16 |-> <<<<"gi", "ta", " ", "cham", "go", "sa", "hang">>,
              <<"gi", "ta", " ", "sa", "hang">>,
              <<"gi", "ta", " ", "cham", "go">>,
              <<"geu", " ", "bakk", "qui", " ", "cham", "go", "sa", "hang">>,
              <<"geu", " ", "bakk", "qui", " ", "sa", "hang">>>> ]

BOUNDARY_NEXT_NUMBER ==
    [k3 |-> 4, k4 |-> 5, k5 |-> 6, k6 |-> 7, k7 |-> 8, k8 |-> 9, k9 |-> 10, k10 |-> 11, k11 |-> 12, k12 |-> 13, k13 |-> 14, k14 |-> 15, k15 |-> 16]

TOC_HINT_WORDS ==
    {<<"c", "o", "n", "t", "e", "n", "t", "s">>,
     <<"g", "h", "s", "-", "m", "s", "d", "s">>,
     <<"t", "a", "b", "l", "e", " ", "o", "f", " ", "c", "o", "n", "t", "e", "n", "t", "s">>,
     <<"mog", "cha">>,
     <<"mul", "jil", " ", "qan", "jeon", "bo", "geon", "ja", "ryo">>}

TOC_SECTION_KEYS ==
    {<<"gu", "seong">>,
     <<"gyu", "je">>,
     <<"gi", "ta">>,
     <<"no", "chul">>,
     <<"nu", "chul">>,
     <<"dog", "seong">>,
     <<"mul", "ri">>,
     <<"ban", "qeung", "seong">>,
     <<"beob", "jeog">>,
     <<"bo", "gwan">>,
     <<"bo", "ho", "gu">>,
     <<"qan", "jeong", "seong">>,
     <<"qun", "song">>,
     <<"qwi", "heom">>,
     <<"qyu", "hae">>,
     <<"qeung", "geub">>,
     <<"cham", "go">>,
     <<"chwi", "geub">>,
     <<"pye", "gi">>,
     <<"pog", "bal">>,
     <<"hwa", "hag">>,
     <<"hwa", "hag", "jeog">>,
     <<"hwan", "gyeong">>,
     <<"hoe", "sa">>}

\* the strategy-1 patterns of each section, in the order of the source
find_section_patterns ==
    [ k1 |-> <<
        Cat(<<sec(1), Lit(<<"hwa", "hag">>), sep, Lit(<<"je", "pum">>), sep, Lit(<<"gwa">>), sep, Lit(<<"hoe", "sa">>), Opt(Cat(<<sep, Lit(<<"qe">>), sep, Lit(<<"gwan", "han">>), sep, Lit(<<"jeong", "bo">>)>>))>>),
        Cat(<<sec(1), Lit(<<"hwa", "hag">>), sep, Lit(<<"je", "pum">>)>>),
        Cat(<<sec(1), Lit(<<"je", "pum">>), sep, Lit(<<"myeong">>)>>),
        Cat(<<sec(1), Lit(<<"hwa", "hag">>), sep, Lit(<<"hoe", "sa">>)>>) >>,
      k2 |-> <<
        Cat(<<sec(2), Lit(<<"qyu", "hae">>), sep, Lit(<<"seong">>), sep, Opt(Cls({".", "MIDDOT", "KMIDDOT"})), sep, Lit(<<"qwi", "heom">>), sep, Lit(<<"seong">>)>>),
        Cat(<<sec(2), Lit(<<"qyu", "hae">>), sep, Lit(<<"qwi", "heom">>), sep, Lit(<<"seong">>)>>),
        Cat(<<sec(2), Lit(<<"qyu", "hae">>), sep, Lit(<<"seong">>)>>),
        Cat(<<sec(2), Lit(<<"qyu", "hae">>), sep, Lit(<<"qwi", "heom">>)>>),
        Cat(<<sec(2), Lit(<<"qwi", "heom">>), sep, Lit(<<"seong">>), sep, Opt(Cls({".", "MIDDOT", "KMIDDOT"})), sep, Lit(<<"qyu", "hae">>), sep, Lit(<<"seong">>)>>),
        Cat(<<sec(2), Lit(<<"qwi", "heom">>), sep, Lit(<<"qyu", "hae">>), sep, Lit(<<"seong">>)>>),
        Cat(<<sec(2), Lit(<<"qwi", "heom">>), sep, Lit(<<"qyu", "hae">>)>>),
        Cat(<<sec(2), Alt(<<Lit(<<"qyu", "hae">>), Lit(<<"qwi", "heom">>)>>), sep, Lit(<<"seong">>), sep, Lit(<<"mich">>), sep, Alt(<<Lit(<<"qyu", "hae">>), Lit(<<"qwi", "heom">>)>>), sep, Lit(<<"seong">>)>>),
        Cat(<<sec(2), Alt(<<Lit(<<"qyu", "hae">>), Lit(<<"qwi", "heom">>)>>), sep, Lit(<<"mich">>), sep, Alt(<<Lit(<<"qyu", "hae">>), Lit(<<"qwi", "heom">>)>>), sep, Lit(<<"seong">>)>>) >>,
      k3 |-> <<
        Cat(<<sec(3), Lit(<<"gu", "seong">>), sep, Lit(<<"seong", "bun">>), Opt(Cat(<<sep, Lit(<<"qui">>), sep, Lit(<<"myeong", "ching">>), sep, Lit(<<"mich">>), sep, Alt(<<Cat(<<Lit(<<"ham">>), Opt(Lit(<<"qyu">>)), Opt(sep), Lit(<<"ryang">>)>>), Lit(<<"ham", "ryang">>), Lit(<<"jo", "seong">>)>>)>>))>>),
        Cat(<<sec(3), Opt(Cat(<<Lit(<<"gu", "seong">>), sep>>)), Lit(<<"seong", "bun">>), sep, Opt(Alt(<<Lit(<<"pyo">>), Lit(<<"jeong", "bo">>)>>))>>),
        Cat(<<sec(3), Lit(<<"seong", "bun">>), sep, Alt(<<Lit(<<"myeong">>), Lit(<<"myeong", "ching">>)>>), sep, Lit(<<"mich">>), sep, Alt(<<Cat(<<Lit(<<"ham">>), Opt(Lit(<<"qyu">>)), Opt(sep), Lit(<<"ryang">>)>>), Lit(<<"ham", "ryang">>)>>)>>),
        Cat(<<sec(3), Lit(<<"jo", "seong">>), sep, Opt(Alt(<<Cat(<<Lit(<<"mich">>), sep, Lit(<<"myeong", "ching">>)>>), Lit(<<"jeong", "bo">>), Lit(<<"pyo">>)>>))>>) >>,
      k4 |-> <<
        Cat(<<sec(4), Lit(<<"qeung", "geub">>), sep, Lit(<<"jo", "chi">>), sep, Opt(Alt(<<Lit(<<"qyo", "ryeong">>), Lit(<<"bang", "beob">>)>>))>>),
        Cat(<<sec(4), Lit(<<"qeung", "geub">>), sep, Lit(<<"jo", "chi">>)>>) >>,
      k5 |-> <<
        Cat(<<sec(5), Alt(<<Lit(<<"pog", "bal">>), Lit(<<"hwa", "jae">>)>>), sep, Lit(<<"si">>), sep, Alt(<<Lit(<<"dae", "cheo">>), Lit(<<"jo", "chi">>)>>), sep, Lit(<<"bang">>), Opt(Lit(<<"beob">>))>>),
        Cat(<<sec(5), Lit(<<"hwa", "jae">>), sep, Lit(<<"mich">>), sep, Lit(<<"pog", "bal">>), sep, Lit(<<"si">>), sep, Alt(<<Lit(<<"dae", "cheo">>), Lit(<<"jo", "chi">>)>>)>>) >>,
      k6 |-> <<
        Cat(<<sec(6), Alt(<<Lit(<<"nu", "chul">>), Lit(<<"qyu", "chul">>)>>), sep, Lit(<<"sa", "go">>), sep, Lit(<<"si">>), sep, Alt(<<Lit(<<"dae", "cheo">>), Lit(<<"jo", "chi">>)>>), sep, Lit(<<"bang">>), Opt(Lit(<<"beob">>))>>),
        Cat(<<sec(6), Alt(<<Lit(<<"nu", "chul">>), Lit(<<"qyu", "chul">>)>>), sep, Alt(<<Lit(<<"dae", "cheo">>), Lit(<<"jo", "chi">>)>>)>>) >>,
      k7 |-> <<
        Cat(<<sec(7), Lit(<<"chwi", "geub">>), sep, Lit(<<"mich">>), sep, Lit(<<"jeo", "jang">>), sep, Lit(<<"bang", "beob">>)>>),
        Cat(<<sec(7), Lit(<<"chwi", "geub">>), sep, Lit(<<"mich">>), sep, Lit(<<"bo", "gwan">>)>>) >>,
      k8 |-> <<
        Cat(<<sec(8), Lit(<<"no", "chul">>), sep, Lit(<<"bang", "ji">>), sep, Lit(<<"mich">>), sep, Lit(<<"gae", "qin">>), sep, Lit(<<"bo", "ho", "gu">>)>>),
        Cat(<<sec(8), Lit(<<"no", "chul">>), sep, Lit(<<"bang", "ji">>)>>),
        Cat(<<sec(8), Lit(<<"gae", "qin">>), sep, Lit(<<"bo", "ho", "gu">>)>>) >>,
      k9 |-> <<
        Cat(<<sec(9), Lit(<<"mul", "ri">>), sep, Lit(<<"hwa", "hag">>), Opt(sep), Lit(<<"jeog">>), sep, Alt(<<Lit(<<"teug", "seong">>), Lit(<<"teug", "jing">>)>>)>>),
        Cat(<<sec(9), Lit(<<"mul", "ri">>), sep, Lit(<<"hwa", "hag">>), sep, Alt(<<Lit(<<"teug", "seong">>), Lit(<<"teug", "jing">>)>>)>>),
        Cat(<<sec(9), Lit(<<"mul", "ri">>), sep, Lit(<<"jeog">>), sep, Alt(<<Lit(<<"teug", "seong">>), Lit(<<"teug", "jing">>)>>)>>) >>,
      k10 |-> <<
        Cat(<<sec(10), Lit(<<"qan", "jeong">>), sep, Lit(<<"seong">>), sep, Lit(<<"mich">>), sep, Lit(<<"ban", "qeung">>), sep, Lit(<<"seong">>)>>),
        Cat(<<sec(10), Lit(<<"qan", "jeong">>), sep, Lit(<<"seong">>)>>),
        Cat(<<sec(10), Lit(<<"ban", "qeung">>), sep, Lit(<<"seong">>)>>) >>,
      k11 |-> <<
        Cat(<<sec(11), Lit(<<"dog", "seong">>), sep, Lit(<<"qe">>), sep, Lit(<<"gwan", "han">>), sep, Lit(<<"jeong", "bo">>)>>),
        Cat(<<sec(11), Lit(<<"dog", "seong">>), sep, Lit(<<"jeong", "bo">>)>>) >>,
      k12 |-> <<
        Cat(<<sec(12), Lit(<<"hwan", "gyeong">>), sep, Lit(<<"qe">>), sep, Lit(<<"mi", "chi", "neun">>), sep, Lit(<<"qyeong", "hyang">>)>>),
        Cat(<<sec(12), Lit(<<"hwan", "gyeong">>), sep, Lit(<<"qyeong", "hyang">>)>>) >>,
      k13 |-> <<
        Cat(<<sec(13), Lit(<<"pye", "gi">>), sep, Lit(<<"si">>), sep, Lit(<<"ju", "qui">>), sep, Lit(<<"sa", "hang">>)>>),
        Cat(<<sec(13), Lit(<<"pye", "gi">>), sep, Lit(<<"bang", "beob">>)>>) >>,
      k14 |-> <<
        Cat(<<sec(14), Lit(<<"qun", "song">>), sep, Lit(<<"qe">>), sep, Lit(<<"pil", "qyo", "han">>), sep, Lit(<<"sa", "hang">>)>>),
        Cat(<<sec(14), Lit(<<"qun", "song">>), sep, Lit(<<"qe">>), sep, Lit(<<"gwan", "han">>), sep, Lit(<<"sa", "hang">>)>>) >>,
      k15 |-> <<
        Cat(<<sec(15), Alt(<<Lit(<<"beob", "jeog">>), Cat(<<Lit(<<"beob">>), Star(Cls(SpaceChars)), Lit(<<"gyu">>)>>)>>), sep, Lit(<<"gyu">>), Cls({"je", "jye"}), Opt(Cat(<<sep, Lit(<<"hyeon", "hwang">>)>>))>>),
        Cat(<<sec(15), Opt(Alt(<<Lit(<<"gwan", "ryeon">>), Cat(<<Lit(<<"gi">>), Star(Cls(SpaceChars)), Lit(<<"ta">>)>>)>>)), sep, Alt(<<Lit(<<"beob">>), Lit(<<"gyu">>)>>), sep, Lit(<<"je">>)>>),
        Cat(<<sec(15), Alt(<<Lit(<<"beob", "jeog">>), Cat(<<Lit(<<"beob">>), Star(Cls(SpaceChars)), Lit(<<"gyu">>)>>)>>), sep, Lit(<<"gyu", "jye">>), Opt(Cat(<<sep, Lit(<<"hyeon", "hwang">>)>>))>>) >>,
      k16 |-> <<
        Cat(<<sec(16), Lit(<<"gi", "ta">>), sep, Lit(<<"cham", "go">>), sep, Lit(<<"sa", "hang">>)>>),
        Cat(<<sec(16), Lit(<<"gi", "ta">>), sep, Lit(<<"sa", "hang">>)>>),
        Cat(<<sec(16), Lit(<<"geu">>), sep, Lit(<<"bakk">>), sep, Lit(<<"qui">>), sep, Lit(<<"cham", "go">>), sep, Lit(<<"sa", "hang">>)>>),
        Cat(<<sec(16), Lit(<<"geu">>), sep, Lit(<<"bakk">>), sep, Lit(<<"qui">>), sep, Lit(<<"sa", "hang">>)>>) >> ]

\* the cross-line patterns; compiled with re.IGNORECASE | re.MULTILINE
\* a fallback table that files a section-1 heading under a key of its own
FallbackWithForeignKey ==
    [product |-> Cat(<<sec(1), Lit(<<"je", "pum">>), sep, Lit(<<"myeong">>)>>)]

FALLBACK_HEAD_RXS ==
    [ k1 |->
        Cat(<<sec(1), Alt(<<Cat(<<Lit(<<"hwa", "hag">>), sep, Lit(<<"je", "pum">>), sep, Lit(<<"gwa">>), sep, Lit(<<"hoe", "sa">>), Opt(Cat(<<sep, Lit(<<"qe">>), sep, Lit(<<"gwan", "han">>), sep, Lit(<<"jeong", "bo">>)>>))>>), Cat(<<Lit(<<"hwa", "hag">>), sep, Lit(<<"je", "pum">>)>>), Cat(<<Lit(<<"je", "pum">>), sep, Lit(<<"myeong">>)>>), Cat(<<Lit(<<"hwa", "hag">>), sep, Lit(<<"hoe", "sa">>)>>)>>)>>),
      k2 |->
        Cat(<<sec(2), Alt(<<Cat(<<Lit(<<"qyu", "hae">>), sep, Lit(<<"seong">>), sep, Opt(Cls({".", "MIDDOT", "KMIDDOT"})), sep, Lit(<<"qwi", "heom">>), sep, Lit(<<"seong">>)>>), Cat(<<Lit(<<"qyu", "hae">>), sep, Lit(<<"qwi", "heom">>), sep, Lit(<<"seong">>)>>), Cat(<<Lit(<<"qyu", "hae">>), sep, Lit(<<"seong">>)>>), Cat(<<Lit(<<"qyu", "hae">>), sep, Lit(<<"qwi", "heom">>)>>), Cat(<<Lit(<<"qwi", "heom">>), sep, Lit(<<"seong">>), sep, Opt(Cls({".", "MIDDOT", "KMIDDOT"})), sep, Lit(<<"qyu", "hae">>), sep, Lit(<<"seong">>)>>), Cat(<<Lit(<<"qwi", "heom">>), sep, Lit(<<"qyu", "hae">>), sep, Lit(<<"seong">>)>>), Cat(<<Lit(<<"qwi", "heom">>), sep, Lit(<<"qyu", "hae">>)>>), Cat(<<Alt(<<Lit(<<"qyu", "hae">>), Lit(<<"qwi", "heom">>)>>), sep, Lit(<<"seong">>), sep, Lit(<<"mich">>), sep, Alt(<<Lit(<<"qyu", "hae">>), Lit(<<"qwi", "heom">>)>>), sep, Lit(<<"seong">>)>>), Cat(<<Alt(<<Lit(<<"qyu", "hae">>), Lit(<<"qwi", "heom">>)>>), sep, Lit(<<"mich">>), sep, Alt(<<Lit(<<"qyu", "hae">>), Lit(<<"qwi", "heom">>)>>), sep, Lit(<<"seong">>)>>)>>)>>),
      k3 |->
        Cat(<<sec(3), Alt(<<Cat(<<Lit(<<"gu", "seong">>), sep, Lit(<<"seong", "bun">>), Opt(Cat(<<sep, Lit(<<"qui">>), sep, Lit(<<"myeong", "ching">>), sep, Lit(<<"mich">>), sep, Alt(<<Cat(<<Lit(<<"ham">>), Opt(Lit(<<"qyu">>)), Opt(sep), Lit(<<"ryang">>)>>), Lit(<<"ham", "ryang">>), Lit(<<"jo", "seong">>)>>)>>))>>), Cat(<<Opt(Cat(<<Lit(<<"gu", "seong">>), sep>>)), Lit(<<"seong", "bun">>), sep, Opt(Alt(<<Lit(<<"pyo">>), Lit(<<"jeong", "bo">>)>>))>>), Cat(<<Lit(<<"seong", "bun">>), sep, Alt(<<Lit(<<"myeong">>), Lit(<<"myeong", "ching">>)>>), sep, Lit(<<"mich">>), sep, Alt(<<Cat(<<Lit(<<"ham">>), Opt(Lit(<<"qyu">>)), Opt(sep), Lit(<<"ryang">>)>>), Lit(<<"ham", "ryang">>)>>)>>), Cat(<<Lit(<<"jo", "seong">>), Star(Dot)>>)>>)>>),
      k9 |->
        Cat(<<sec(9), Alt(<<Cat(<<Lit(<<"mul", "ri">>), sep, Lit(<<"hwa", "hag">>), Opt(sep), Lit(<<"jeog">>), sep, Alt(<<Lit(<<"teug", "seong">>), Lit(<<"teug", "jing">>)>>)>>), Cat(<<Lit(<<"mul", "ri">>), sep, Lit(<<"hwa", "hag">>), sep, Alt(<<Lit(<<"teug", "seong">>), Lit(<<"teug", "jing">>)>>)>>), Cat(<<Lit(<<"mul", "ri">>), sep, Lit(<<"jeog">>), sep, Alt(<<Lit(<<"teug", "seong">>), Lit(<<"teug", "jing">>)>>)>>)>>)>>),
      k15 |->
        Cat(<<sec(15), Alt(<<Lit(<<"beob", "jeog">>), Lit(<<"beob", "gyu">>)>>), sep, Lit(<<"gyu">>), Cls({"je", "jye"}), Opt(Cat(<<sep, Lit(<<"hyeon", "hwang">>)>>))>>) ]

\* ------------------------------------------------------------------------
\* Boilerplate lines (normalize_text, is_header_line, remove_repeated_headers)
\* ------------------------------------------------------------------------
\* re.sub(r"\s+", "", (text or "").lower())
normalize_text(text) == Filter(LowerStr(text), SpaceChars)

header_patterns ==
    <<Lit(<<"m", "s", "d", "s", "beon", "ho">>),
      Lit(<<"mun", "seo", "beon", "ho">>),
      Lit(<<"gae", "jeong", "qil", "ja">>),
      Lit(<<"gae", "jeong", "beon", "ho">>),
      Cat(<<Bol, Lit(<<"mul", "jil", "qan", "jeon", "bo", "geon", "ja", "ryo">>), Eol>>),
      Cat(<<Bol, Lit(<<"m", "a", "t", "e", "r", "i", "a", "l", "s", "a", "f", "e", "t", "y", "d", "a", "t", "a", "s", "h", "e", "e", "t">>), Opt(Lit(<<"s">>)), Eol>>),
      Cat(<<Lit(<<"g", "h", "s">>), Opt(Cls({" ", "\t", "\n", "NBSP", "-"})), Lit(<<"m", "s", "d", "s">>)>>),
      Cat(<<Plus(Cls(DigitChars)), Star(Cls(SpaceChars)), Lit(<<"/">>), Star(Cls(SpaceChars)), Plus(Cls(DigitChars)), Star(Cls(SpaceChars)), Alt(<<Lit(<<"pe", "qi", "ji">>), Lit(<<"p", "a", "g", "e">>)>>)>>),
      Cat(<<Lit(<<"p", "a", "g", "e">>), Star(Cls(SpaceChars)), Plus(Cls(DigitChars)), Star(Cls(SpaceChars)), Lit(<<"/">>), Star(Cls(SpaceChars)), Plus(Cls(DigitChars))>>),
      Cat(<<Lit(<<"-">>), Plus(Cls(DigitChars)), Lit(<<"/">>), Plus(Cls(DigitChars)), Lit(<<"-">>), Star(Cls(SpaceChars)), Lit(<<"r", "e", "v">>), Lit(<<".">>)>>),
      Cat(<<Lit(<<"r", "e", "v">>), Lit(<<".">>), Star(Cls(SpaceChars)), Plus(Cls(DigitChars))>>),
      Lit(<<"c", "o", "p", "y", "r", "i", "g", "h", "t">>),
      Cat(<<Lit(<<"a", "l", "l">>), Star(Cls(SpaceChars)), Lit(<<"r", "i", "g", "h", "t", "s">>), Star(Cls(SpaceChars)), Lit(<<"r", "e", "s", "e", "r", "v", "e", "d">>)>>)>>

is_header_line(line) ==
    LET normalized == normalize_text(line)
    IN  IF Contains(normalized, <<"bon", "m", "s", "d", "s", "neun">>) THEN FALSE
        ELSE \E i \in DOMAIN header_patterns :
                 Search(normalized, header_patterns[i], Flags(FALSE, FALSE))

\* lines[a:b] of Python for 0 <= a: the lines at the 0-based places a .. b-1
Slice(lines, a, b) ==
    LET hi == IF b < Len(lines) THEN b ELSE Len(lines)
    IN  IF a >= hi THEN <<>> ELSE SubSeq(lines, a + 1, hi)

HEADER_SCAN_LINES == 10

\* the removal with the boilerplate lines detected in the whole document
RemoveHeadersAnywhere(lines) ==
    IF lines = <<>> THEN lines
    ELSE LET header_lines == {normalize_text(lines[i]) : i \in {j \in DOMAIN lines : is_header_line(lines[j])}}
             kept == {i \in DOMAIN lines : normalize_text(lines[i]) \notin header_lines}
         IN  AtPlaces(lines, kept)
remove_repeated_headers(lines) ==
    IF lines = <<>> THEN lines
    ELSE LET first == Slice(lines, 0, HEADER_SCAN_LINES)
             header_lines == {normalize_text(first[i]) : i \in {j \in DOMAIN first : is_header_line(first[j])}}
             kept == {i \in DOMAIN lines : normalize_text(lines[i]) \notin header_lines}
         IN  AtPlaces(lines, kept)

\* ------------------------------------------------------------------------
\* Similarity (difflib.SequenceMatcher(None, a, b).ratio())
\* ------------------------------------------------------------------------
RECURSIVE RunLen(_, _, _, _, _, _)
\* the length of the common run of a[i..ahi] and b[j..bhi]
RunLen(a, i, ahi, b, j, bhi) ==
    IF i > ahi \/ j > bhi THEN 0
    ELSE IF a[i] # b[j] THEN 0
         ELSE 1 + RunLen(a, i + 1, ahi, b, j + 1, bhi)

\* find_longest_match: the longest block, the earliest in a, then the earliest in b
LongestMatch(a, alo, ahi, b, blo, bhi) ==
    LET pairs == {ij \in (alo..ahi) \X (blo..bhi) : a[ij[1]] = b[ij[2]]}
        k(ij) == RunLen(a, ij[1], ahi, b, ij[2], bhi)
        best == {ij \in pairs : \A o \in pairs : k(o) <= k(ij)}
        firstA == {ij \in best : \A o \in best : ij[1] <= o[1]}
        m == CHOOSE ij \in firstA : \A o \in firstA : ij[2] <= o[2]
    IN  IF pairs = {} THEN [i |-> alo, j |-> blo, k |-> 0]
        ELSE [i |-> m[1], j |-> m[2], k |-> k(m)]

RECURSIVE MatchedChars(_, _, _, _, _, _)
\* the total size of get_matching_blocks()
MatchedChars(a, alo, ahi, b, blo, bhi) ==
    IF alo > ahi \/ blo > bhi THEN 0
    ELSE LET m == LongestMatch(a, alo, ahi, b, blo, bhi)
         IN  IF m.k = 0 THEN 0
             ELSE m.k + MatchedChars(a, alo, m.i - 1, b, blo, m.j - 1)
                      + MatchedChars(a, m.i + m.k, ahi, b, m.j + m.k, bhi)

\* ratio() = 2.0 * M / T as the pair <<2M, T>>; 1.0 when both strings are empty
Ratio(a, b) ==
    IF Len(a) + Len(b) = 0 THEN <<1, 1>>
    ELSE <<2 * MatchedChars(a, 1, Len(a), b, 1, Len(b)), Len(a) + Len(b)>>

\* threshold = 0.78
SIM_THRESHOLD_PCT == 78
RatioAtLeast(r, pct) == 100 * r[1] >= pct * r[2]
RatioGreater(r1, r2) == r1[1] * r2[2] > r2[1] * r1[2]

similar(a, b) == Ratio(Filter(a, WSChars), Filter(b, WSChars))

RECURSIVE TokensFrom(_, _, _)
TokensFrom(s, i, cur) ==
    IF i > Len(s) THEN (IF cur = <<>> THEN {} ELSE {cur})
    ELSE IF IsWordChar(s[i]) THEN TokensFrom(s, i + 1, Append(cur, s[i]))
         ELSE (IF cur = <<>> THEN {} ELSE {cur}) \cup TokensFrom(s, i + 1, <<>>)
\* the non-empty pieces of re.split(r"[^\w가-힣]+", hay)
Tokens(hay) == TokensFrom(hay, 1, <<>>)

contains_near(line, targets) ==
    LET hay == Filter(line, SpaceChars)
    IN  \E ti \in DOMAIN targets :
            \/ Contains(hay, targets[ti])
            \/ \E w \in Tokens(hay) :
                   RatioAtLeast(similar(w, Filter(targets[ti], SpaceChars)), SIM_THRESHOLD_PCT)

is_probably_section_line(line, num) ==
    LET s == FlattenSpaces(line)
    IN  /\ Search(s, sec(num), Flags(FALSE, FALSE))
        /\ contains_near(s, PROB_KEYS[num].must)
        /\ contains_near(s, PROB_KEYS[num].also)

is_probably_legal_section_line(line) ==
    LET s == FlattenSpaces(line)
    IN  /\ Search(s, sec(15), Flags(FALSE, FALSE))
        /\ contains_near(s, <<<<"beob", "jeog">>, <<"beob", "gyu">>>>)
        /\ contains_near(s, <<<<"gyu", "je">>, <<"gyu", "je", "hyeon", "hwang">>,
                              <<"gyu", "jye">>, <<"gyu", "jye", "hyeon", "hwang">>>>)


\* ------------------------------------------------------------------------
\* Page edges (strip_page_edges)
\* ------------------------------------------------------------------------
PAGE_MARK_RE ==
    Cat(<<WordB, Plus(Cls(DigitChars)), Star(Cls(SpaceChars)), Lit(<<"/">>), Star(Cls(SpaceChars)), Plus(Cls(DigitChars)), Star(Cls(SpaceChars)), Alt(<<Lit(<<"pe", "qi", "ji">>), Lit(<<"p", "a", "g", "e">>)>>), WordB>>)
DOC_MARK_RE ==
    Cat(<<Lit(<<"g", "h", "s">>), Opt(Cls({" ", "\t", "\n", "NBSP", "-"})), Lit(<<"m", "s", "d", "s">>)>>)

PAGE_EDGE_LINES == 3

strip_page_edges(text) ==
    IF text = <<>> THEN text
    ELSE LET lines == Split(text)
             dropped(k) ==
                 LET i == k - 1
                     ln == lines[k]
                     at_top == i < PAGE_EDGE_LINES
                     at_bot == i >= Len(lines) - PAGE_EDGE_LINES
                 IN  \/ at_top /\ (Search(ln, DOC_MARK_RE, Flags(TRUE, FALSE)) \/ is_header_line(ln))
                     \/ at_bot /\ (Search(ln, PAGE_MARK_RE, Flags(TRUE, FALSE)) \/ is_header_line(ln))
         IN  Join(AtPlaces(lines, {k \in DOMAIN lines : ~dropped(k)}))

\* ------------------------------------------------------------------------
\* Tables of contents (is_toc_like_numbering, is_toc_page)
\* ------------------------------------------------------------------------
\* ^\s*(?:\[(\d{1,2})\]|(\d{1,2})\s*[\.\):])
TOCNUM ==
    Cat(<<Bol, Star(Cls(SpaceChars)), Alt(<<Cat(<<Lit(<<"[">>), Digit12, Lit(<<"]">>)>>), Cat(<<Digit12, Star(Cls(SpaceChars)), Cls({".", ")", ":"})>>)>>)>>)

DigitVal(c) == CHOOSE d \in 0..9 : DigitOf(d) = c

\* int(m.group(1) or m.group(2)) of a line that TOCNUM matches, -1 when it
\* does not match
EnumNumber(line) ==
    IF ~SearchBol(line, TOCNUM, FALSE) THEN -1
    ELSE LET t == LStrip(line)
             d == IF t[1] = "[" THEN Tail(t) ELSE t
         IN  IF Len(d) >= 2 /\ d[2] \in DigitChars
             THEN 10 * DigitVal(d[1]) + DigitVal(d[2])
             ELSE DigitVal(d[1])

is_toc_like_numbering(line) ==
    LET val == EnumNumber(line)
    IN  IF 1 <= val /\ val <= 16 THEN val ELSE -1

NonBlank(lines) == AtPlaces(lines, {k \in DOMAIN lines : Strip(lines[k]) # <<>>})

HasTocKeyword(line) == \E kw \in TOC_SECTION_KEYS : Contains(line, kw)

\* the test with the share of enumerated lines strictly above 30%
IsTocPageAboveShare(text) ==
    IF text = <<>> THEN FALSE
    ELSE LET t == Strip(text)
             lines == NonBlank(Split(t))
             hint == \E h \in TOC_HINT_WORDS : Contains(LowerStr(t), LowerStr(h))
             numbered == {k \in DOMAIN lines : is_toc_like_numbering(lines[k]) # -1}
             unique_nums == {is_toc_like_numbering(lines[k]) : k \in numbered}
             n == IF Len(lines) >= 1 THEN Len(lines) ELSE 1
         IN  \/ hint
             \/ /\ Cardinality(unique_nums) >= 6
                /\ 100 * Cardinality(numbered) > 30 * n
                /\ 100 * Cardinality({k \in DOMAIN lines : HasTocKeyword(lines[k])}) >= 10 * n

is_toc_page(text) ==
    IF text = <<>> THEN FALSE
    ELSE LET t == Strip(text)
             lines == NonBlank(Split(t))
             hint == \E h \in TOC_HINT_WORDS : Contains(LowerStr(t), LowerStr(h))
             numbered == {k \in DOMAIN lines : is_toc_like_numbering(lines[k]) # -1}
             unique_nums == {is_toc_like_numbering(lines[k]) : k \in numbered}
             numbered_lines == Cardinality(numbered)
             kw_hits == Cardinality({k \in DOMAIN lines : HasTocKeyword(lines[k])})
             n == IF Len(lines) >= 1 THEN Len(lines) ELSE 1
         IN  \/ hint
             \/ /\ Cardinality(unique_nums) >= 6
                /\ (unique_nums = {} \/ Max(unique_nums) <= 16)
                /\ 100 * numbered_lines >= 30 * n
                /\ 100 * kw_hits >= 10 * n

\* ------------------------------------------------------------------------
\* Heading strategies (find_all_section_starts .. find_section_start)
\* ------------------------------------------------------------------------
PRODUCT_NAME_RE ==
    Cat(<<Bol, Star(Cls(SpaceChars)), Opt(Alt(<<Cat(<<Lit(<<"[">>), Alt(<<Lit(<<"1">>), Lit(<<"CIRCLED1">>)>>), Lit(<<"]">>)>>), Cat(<<Lit(<<"1">>), Star(Cls(SpaceChars)), Opt(Cls({".", ")", ":"}))>>)>>)), Star(Cls(SpaceChars)), Alt(<<Cat(<<Lit(<<"je", "pum">>), Star(Cls(SpaceChars)), Lit(<<"myeong">>)>>), Lit(<<"je", "pum", "myeong">>), Cat(<<Lit(<<"p", "r", "o", "d", "u", "c", "t">>), Star(Cls(SpaceChars)), Lit(<<"n", "a", "m", "e">>)>>)>>), Star(Cls(SpaceChars)), Opt(Cls({":", "FWCOLON"}))>>)

is_product_name_line(s) ==
    IF s = <<>> THEN FALSE
    ELSE SearchBol(Strip(FlattenSpaces(s)), PRODUCT_NAME_RE, TRUE)

bad_phrases ==
    <<<<"qe", "neun">>, <<"qe", "neun", " ">>, <<"qe", " ">>, <<"cham", "jo">>, <<"qa", "rae", " ", "pyo">>, <<"qa", "rae", "pyo">>, <<"qa", "rae", " ", "gi", "jae">>, <<"qa", "rae", "qe">>, <<"bo", "gi">>>>
SENT_END_RE == Cat(<<Cls({".", ":", "FWCOLON", "FWDOT", "IDEOSTOP"}), Eol>>)

looks_like_sentence(line) ==
    LET s == Strip(FlattenSpaces(line))
    IN  \/ \E i \in DOMAIN bad_phrases : Contains(s, bad_phrases[i])
        \/ Search(s, SENT_END_RE, Flags(FALSE, FALSE))

\* any(re.search(pattern, line_cmp, re.IGNORECASE) for pattern in patterns)
MatchesAny(line_cmp, patterns) ==
    \E i \in DOMAIN patterns : Search(line_cmp, patterns[i], Flags(TRUE, FALSE))

\* the sorted list of 0-based places of a set of 1-based places
IdxList(S) ==
    LET n == Cardinality(S)
        nth(j) == CHOOSE i \in S : Cardinality({k \in S : k <= i}) = j
    IN  SubSeq([j \in 1..n |-> nth(j) - 1], 1, n)

\* the first line that is accepted alone, as if the scan of the lines
\* stopped at it
FirstSectionStartOnly(lines, patterns, section_key) ==
    LET hits == {k \in DOMAIN lines :
                    LET line_cmp == FlattenSpaces(lines[k])
                    IN  /\ MatchesAny(line_cmp, patterns)
                        /\ ~(section_key = "k3" /\ looks_like_sentence(line_cmp))}
    IN  IF hits = {} THEN <<>> ELSE <<Min(hits) - 1>>
find_all_section_starts(lines, patterns, section_key) ==
    IdxList({k \in DOMAIN lines :
                LET line_cmp == FlattenSpaces(lines[k])
                IN  /\ MatchesAny(line_cmp, patterns)
                    /\ ~(section_key = "k3" /\ looks_like_sentence(line_cmp))})

count_body_lines_between(lines, start_idx, end_idx) ==
    LET body == Slice(lines, start_idx + 1, end_idx)
    IN  Cardinality({k \in DOMAIN body : Strip(body[k]) # <<>> /\ ~is_header_line(body[k])})

composition_keywords ==
    <<<<"hwa", "hag", "mul", "jil", "myeong">>, <<"ka", "seu">>, <<"C", "A", "S">>, <<"ham", "qyu", "ryang">>, <<"seong", "bun", "pyo">>>>
COMPOSITION_LOOKAHEAD == 20

has_composition_table_header_ahead(lines, start_idx, lookahead) ==
    LET hay == FlattenSpaces(Join(Slice(lines, start_idx + 1, start_idx + 1 + lookahead)))
    IN  \E i \in DOMAIN composition_keywords : Contains(hay, composition_keywords[i])

\* sec(n) + ".*$": the tail always matches up to the end of the line
head_only(n) == Cat(<<sec(n), Star(Dot), Eol>>)

find_next_boundary_for(lines, start_idx, next_num) ==
    LET hits == {i \in (start_idx + 1)..(Len(lines) - 1) :
                    Search(FlattenSpaces(lines[i + 1]), head_only(next_num), Flags(TRUE, FALSE))}
    IN  IF hits = {} THEN Len(lines) ELSE Min(hits)


RECURSIVE BestStart(_, _, _, _, _, _)
\* the loop of select_best_start over candidate_idxs[k..], carrying
\* best_idx and best_score
BestStart(lines, candidate_idxs, section_name, k, best_idx, best_score) ==
    IF k > Len(candidate_idxs) THEN <<best_idx, best_score>>
    ELSE LET s == candidate_idxs[k]
             later == {candidate_idxs[c] : c \in {d \in DOMAIN candidate_idxs : candidate_idxs[d] > s}}
             forced_end ==
                 IF section_name \in DOMAIN BOUNDARY_NEXT_NUMBER
                 THEN find_next_boundary_for(lines, s, BOUNDARY_NEXT_NUMBER[section_name])
                 ELSE IF later # {} THEN Min(later) ELSE Len(lines)
             body_cnt == count_body_lines_between(lines, s, forced_end)
             score ==
                 IF section_name = "k3"
                 THEN body_cnt
                      + (IF has_composition_table_header_ahead(lines, s, COMPOSITION_LOOKAHEAD) THEN 50 ELSE 0)
                      - (IF looks_like_sentence(lines[s + 1]) THEN 30 ELSE 0)
                 ELSE body_cnt
         IN  IF score > best_score \/ (score = best_score /\ s > best_idx)
             THEN BestStart(lines, candidate_idxs, section_name, k + 1, s, score)
             ELSE BestStart(lines, candidate_idxs, section_name, k + 1, best_idx, best_score)

\* the selection that always takes the last candidate
SelectLastCandidate(lines, candidate_idxs, section_name) ==
    IF candidate_idxs = <<>> THEN -1 ELSE candidate_idxs[Len(candidate_idxs)]

\* the pick of the loop, without the return of the last candidate on a
\* best score of 1 or less
SelectLoopPick(lines, candidate_idxs, section_name) ==
    IF candidate_idxs = <<>> THEN -1
    ELSE LET last == candidate_idxs[Len(candidate_idxs)]
             best == BestStart(lines, candidate_idxs, section_name, 1, last, -1)
         IN  best[1]
\* the selection that returns no start on a best score of 1 or less
SelectBestOrNone(lines, candidate_idxs, section_name) ==
    IF candidate_idxs = <<>> THEN -1
    ELSE LET last == candidate_idxs[Len(candidate_idxs)]
             best == BestStart(lines, candidate_idxs, section_name, 1, last, -1)
         IN  IF best[2] <= 1 THEN -1 ELSE best[1]
select_best_start(lines, candidate_idxs, section_name) ==
    IF candidate_idxs = <<>> THEN -1
    ELSE LET last == candidate_idxs[Len(candidate_idxs)]
             best == BestStart(lines, candidate_idxs, section_name, 1, last, -1)
         IN  IF best[2] <= 1 THEN last ELSE best[1]

RECURSIVE LineScore(_, _, _, _)
\* the inner loop of fuzzy_find_section_line: the greatest score of one line
\* over the candidates from candidate c on, best being the greatest so far
LineScore(line_clean, candidates, c, best) ==
    IF c > Len(candidates) THEN best
    ELSE LET score == Ratio(line_clean, Filter(candidates[c], WSChars))
         IN  IF RatioGreater(score, best)
             THEN LineScore(line_clean, candidates, c + 1, score)
             ELSE LineScore(line_clean, candidates, c + 1, best)

RECURSIVE FuzzyBest(_, _, _, _, _)
\* the outer loop of fuzzy_find_section_line from line i on: a line takes
\* the lead when one of its scores is greater than the best score so far
FuzzyBest(lines, candidates, i, best_idx, best_score) ==
    IF i > Len(lines) THEN <<best_idx, best_score>>
    ELSE LET score == LineScore(Filter(lines[i], WSChars), candidates, 1, <<0, 1>>)
         IN  IF RatioGreater(score, best_score)
             THEN FuzzyBest(lines, candidates, i + 1, i - 1, score)
             ELSE FuzzyBest(lines, candidates, i + 1, best_idx, best_score)

fuzzy_find_section_line(lines, candidates) ==
    LET best == FuzzyBest(lines, candidates, 1, -1, <<0, 1>>)
    IN  IF RatioAtLeast(best[2], SIM_THRESHOLD_PCT) THEN best[1] ELSE -1

\* the candidates of strategy 1, and of strategy 2 when strategy 1 has none
StartCandidates(lines, patterns, section_key) ==
    LET c1 == find_all_section_starts(lines, patterns, section_key)
    IN  IF c1 # <<>> \/ section_key \notin DOMAIN SECNUM THEN c1
        ELSE IdxList({k \in DOMAIN lines : is_probably_section_line(lines[k], SECNUM[section_key])})

find_section_start(lines, patterns, section_key) ==
    LET candidates == StartCandidates(lines, patterns, section_key)
    IN  IF candidates = <<>> /\ section_key \in DOMAIN FUZZY_CANDIDATES
        THEN fuzzy_find_section_line([k \in DOMAIN lines |-> Filter(lines[k], WSChars)],
                                     FUZZY_CANDIDATES[section_key])
        ELSE select_best_start(lines, candidates, section_key)

\* ------------------------------------------------------------------------
\* Page and block protection
\* ------------------------------------------------------------------------
PatternKeys == DOMAIN find_section_patterns

page_contains_section_head(text) ==
    IF text = <<>> THEN FALSE
    ELSE LET hay == FlattenSpaces(text)
             lines == Split(hay)
         IN  \/ \E key \in PatternKeys : \E i \in DOMAIN find_section_patterns[key] :
                    Search(hay, find_section_patterns[key][i], Flags(TRUE, TRUE))
             \/ \E k \in DOMAIN lines : is_probably_legal_section_line(lines[k])

fallback_find_head(full_text, rx) ==
    LET txt == FlattenSpaces(full_text)
        starts == MatchStarts(txt, rx, Flags(TRUE, TRUE))
    IN  IF starts = {} THEN -1 ELSE LineIndexOf(txt, Min(starts))

\* no line is taken for a section head
NoSectionHead(line) == FALSE

would_match_any_section_head(line) ==
    LET line_cmp == FlattenSpaces(line)
    IN  \E key \in PatternKeys : MatchesAny(line_cmp, find_section_patterns[key])

TOC_MIN_LINES == 5
TOC_MAX_NUMBER == 16
TOC_MAX_AVG_LEN == 40

\* sum(len(b) for b in buf)
TotalLen(buf) ==
    LET F[k \in 0..Len(buf)] == IF k = 0 THEN 0 ELSE F[k - 1] + Len(buf[k])
    IN  F[Len(buf)]

\* the decision with the distinct numbers counted in the range 1..16
RunIsTocByCountInRange(buf) ==
    LET uniq == {EnumNumber(buf[k]) : k \in DOMAIN buf} \cap 1..TOC_MAX_NUMBER
        seq_count == Len(buf)
        kw_hits == Cardinality({k \in DOMAIN buf : HasTocKeyword(buf[k])})
    IN  /\ ~(\E k \in DOMAIN buf : would_match_any_section_head(buf[k]))
        /\ seq_count >= TOC_MIN_LINES
        /\ Cardinality(uniq) >= TOC_MIN_LINES
        /\ TotalLen(buf) <= TOC_MAX_AVG_LEN * seq_count
        /\ 2 * kw_hits >= seq_count

\* the decision of strip_toc_block on one maximal run of numbered lines
RunIsToc(buf) ==
    LET uniq == {EnumNumber(buf[k]) : k \in DOMAIN buf}
        seq_count == Len(buf)
        kw_hits == Cardinality({k \in DOMAIN buf : HasTocKeyword(buf[k])})
    IN  /\ ~(\E k \in DOMAIN buf : would_match_any_section_head(buf[k]))
        /\ seq_count >= TOC_MIN_LINES
        /\ Cardinality(uniq) >= TOC_MIN_LINES
        /\ Max(uniq) <= TOC_MAX_NUMBER
        /\ TotalLen(buf) <= TOC_MAX_AVG_LEN * seq_count
        /\ 2 * kw_hits >= seq_count

RECURSIVE RunEnd(_, _)
\* the first place j >= i whose line is not numbered (Len(lines) + 1 if none)
RunEnd(lines, j) ==
    IF j > Len(lines) THEN j
    ELSE IF EnumNumber(lines[j]) = -1 THEN j ELSE RunEnd(lines, j + 1)

RECURSIVE StripTocFrom(_, _)
StripTocFrom(lines, i) ==
    IF i > Len(lines) THEN <<>>
    ELSE IF EnumNumber(lines[i]) = -1 THEN <<lines[i]>> \o StripTocFrom(lines, i + 1)
    ELSE LET j == RunEnd(lines, i)
             buf == SubSeq(lines, i, j - 1)
         IN  IF RunIsToc(buf) THEN StripTocFrom(lines, j)
             ELSE buf \o StripTocFrom(lines, j)

RECURSIVE StripTocLinesFrom(_, _)
\* the scan that drops, of a run taken for a table of contents, the lines
\* with a keyword only
StripTocLinesFrom(lines, i) ==
    IF i > Len(lines) THEN <<>>
    ELSE IF EnumNumber(lines[i]) = -1 THEN <<lines[i]>> \o StripTocLinesFrom(lines, i + 1)
    ELSE LET j == RunEnd(lines, i)
             buf == SubSeq(lines, i, j - 1)
         IN  IF RunIsToc(buf)
             THEN AtPlaces(buf, {k \in DOMAIN buf : ~HasTocKeyword(buf[k])}) \o StripTocLinesFrom(lines, j)
             ELSE buf \o StripTocLinesFrom(lines, j)

RECURSIVE StripFirstTocFrom(_, _)
\* the scan that stops at the first run taken for a table of contents
StripFirstTocFrom(lines, i) ==
    IF i > Len(lines) THEN <<>>
    ELSE IF EnumNumber(lines[i]) = -1 THEN <<lines[i]>> \o StripFirstTocFrom(lines, i + 1)
    ELSE LET j == RunEnd(lines, i)
             buf == SubSeq(lines, i, j - 1)
         IN  IF RunIsToc(buf) THEN SubSeq(lines, j, Len(lines))
             ELSE buf \o StripFirstTocFrom(lines, j)

StripTocLines(lines) == StripTocLinesFrom(lines, 1)
StripFirstToc(lines) == StripFirstTocFrom(lines, 1)


strip_toc_block(lines) == StripTocFrom(lines, 1)


\* ------------------------------------------------------------------------
\* Text extraction (extract_text_pages_hybrid)
\* ------------------------------------------------------------------------
\* A document is a record
\*   [kind     : "pdf" for bytes that start with %PDF, "other", or "empty",
\*    readable : pdfplumber.open succeeds,
\*    layer    : the text layer of every page (page.extract_text() or ""),
\*    convert  : the outcome of convert_from_path: "ok", "no_poppler",
\*               "not_found" or "error",
\*    ocr      : for every page what ocr_page_image does with its image:
\*               [ok |-> FALSE] when it raises, else [ok |-> TRUE, text |-> ..]]
ENABLE_OCR == TRUE
OCR_TEXT_MIN_CHARS == 40

\* the OCR pass made whatever convert_from_path does
PageTextsWithOcrAnyway(pdf) ==
    LET texts == [i \in DOMAIN pdf.layer |-> strip_page_edges(pdf.layer[i])]
        need_ocr_idx == {i \in DOMAIN texts : Len(Strip(texts[i])) < OCR_TEXT_MIN_CHARS}
    IN  [i \in DOMAIN texts |->
            IF i \in need_ocr_idx /\ pdf.ocr[i].ok
            THEN strip_page_edges(pdf.ocr[i].text)
            ELSE texts[i]]

\* the OCR pass left at the first page whose OCR raises
PageTextsUntilOcrFails(pdf) ==
    LET texts == [i \in DOMAIN pdf.layer |-> strip_page_edges(pdf.layer[i])]
        need_ocr_idx == {i \in DOMAIN texts : Len(Strip(texts[i])) < OCR_TEXT_MIN_CHARS}
    IN  IF ENABLE_OCR /\ need_ocr_idx # {} /\ pdf.convert = "ok"
        THEN [i \in DOMAIN texts |->
                 IF i \in need_ocr_idx /\ \A j \in need_ocr_idx : j <= i => pdf.ocr[j].ok
                 THEN strip_page_edges(pdf.ocr[i].text)
                 ELSE texts[i]]
        ELSE texts
\* the texts after the text-layer pass and the OCR pass
PageTextsBeforeFilter(pdf) ==
    LET texts == [i \in DOMAIN pdf.layer |-> strip_page_edges(pdf.layer[i])]
        need_ocr_idx == {i \in DOMAIN texts : Len(Strip(texts[i])) < OCR_TEXT_MIN_CHARS}
    IN  IF ENABLE_OCR /\ need_ocr_idx # {} /\ pdf.convert = "ok"
        THEN [i \in DOMAIN texts |->
                 IF i \in need_ocr_idx /\ pdf.ocr[i].ok
                 THEN strip_page_edges(pdf.ocr[i].text)
                 ELSE texts[i]]
        ELSE texts

\* the page filter with the table-of-contents test alone
PageKeptUnlessToc(t) == ~is_toc_page(t)

\* the page filter: a page with a section head is kept before the
\* table-of-contents test is made
PageKept(t) == IF page_contains_section_head(t) THEN TRUE ELSE ~is_toc_page(t)

FilterPages(texts) == AtPlaces(texts, {i \in DOMAIN texts : PageKept(texts[i])})

extract_text_pages_hybrid(pdf) == FilterPages(PageTextsBeforeFilter(pdf))

\* ------------------------------------------------------------------------
\* Section extraction (extract_sections)
\* ------------------------------------------------------------------------
EmptyMap == [k \in {} |-> 0]

\* lines = strip_toc_block(remove_repeated_headers(full_text_raw.split("\n")))
CleanLines(full_text_raw) == strip_toc_block(remove_repeated_headers(Split(full_text_raw)))

\* the first loop with the test pos > 0 in place of pos != -1
StrategyPositionsAfterFirstLine(lines) ==
    LET pos == [key \in PatternKeys |-> find_section_start(lines, find_section_patterns[key], key)]
    IN  [key \in {k \in PatternKeys : pos[k] > 0} |-> pos[key]]

\* the first loop: the start of every section that strategies 1-4 find
StrategyPositions(lines) ==
    LET pos == [key \in PatternKeys |-> find_section_start(lines, find_section_patterns[key], key)]
    IN  [key \in {k \in PatternKeys : pos[k] # -1} |-> pos[key]]

\* one fallback loop that gives every section of FALLBACK_HEAD_RXS the line
\* of its first match, whether or not it has a start
FallbackPositionsReplacing(section_positions, full_text) ==
    LET idx == [key \in DOMAIN FALLBACK_HEAD_RXS |->
                   fallback_find_head(full_text, FALLBACK_HEAD_RXS[key])]
    IN  [key \in DOMAIN section_positions \cup {k \in DOMAIN idx : idx[k] # -1} |->
            IF key \in DOMAIN idx /\ idx[key] # -1 THEN idx[key] ELSE section_positions[key]]

\* one fallback loop: the sections of FALLBACK_HEAD_RXS that have no start
\* yet get the line of the first match in full_text
FallbackPositions(section_positions, full_text) ==
    LET idx == [key \in DOMAIN FALLBACK_HEAD_RXS \ DOMAIN section_positions |->
                   fallback_find_head(full_text, FALLBACK_HEAD_RXS[key])]
    IN  [key \in DOMAIN section_positions \cup {k \in DOMAIN idx : idx[k] # -1} |->
            IF key \in DOMAIN section_positions THEN section_positions[key] ELSE idx[key]]

\* the window of a section that ends at the next found section only
WindowWithoutBoundary(lines, section_positions, section_name) ==
    LET start_pos == section_positions[section_name]
        candidates_after == {section_positions[k] : k \in {x \in DOMAIN section_positions :
                                                              section_positions[x] > start_pos}}
        default_end == IF candidates_after # {} THEN Min(candidates_after) ELSE Len(lines)
        start_line == IF 0 <= start_pos /\ start_pos < Len(lines) THEN lines[start_pos + 1] ELSE <<>>
        body_start ==
            IF section_name = "k1" /\ is_product_name_line(start_line) THEN start_pos
            ELSE start_pos + 1
    IN  [start |-> start_pos, body_start |-> body_start, end |-> default_end]

\* the window of a section that ends at its next-number boundary whatever
\* other section starts before it
WindowToBoundaryOnly(lines, section_positions, section_name) ==
    LET start_pos == section_positions[section_name]
        candidates_after == {section_positions[k] : k \in {x \in DOMAIN section_positions :
                                                              section_positions[x] > start_pos}}
        default_end == IF candidates_after # {} THEN Min(candidates_after) ELSE Len(lines)
        end_pos ==
            IF section_name \in DOMAIN BOUNDARY_NEXT_NUMBER
            THEN find_next_boundary_for(lines, start_pos, BOUNDARY_NEXT_NUMBER[section_name])
            ELSE default_end
        start_line == IF 0 <= start_pos /\ start_pos < Len(lines) THEN lines[start_pos + 1] ELSE <<>>
        body_start ==
            IF section_name = "k1" /\ is_product_name_line(start_line) THEN start_pos
            ELSE start_pos + 1
    IN  [start |-> start_pos, body_start |-> body_start, end |-> end_pos]
\* start_pos, body_start and end_pos of one section
Window(lines, section_positions, section_name) ==
    LET start_pos == section_positions[section_name]
        candidates_after == {section_positions[k] : k \in {x \in DOMAIN section_positions :
                                                              section_positions[x] > start_pos}}
        default_end == IF candidates_after # {} THEN Min(candidates_after) ELSE Len(lines)
        end_pos ==
            IF section_name \in DOMAIN BOUNDARY_NEXT_NUMBER
            THEN LET forced_end == find_next_boundary_for(lines, start_pos,
                                                          BOUNDARY_NEXT_NUMBER[section_name])
                 IN  IF default_end <= forced_end THEN default_end ELSE forced_end
            ELSE default_end
        start_line == IF 0 <= start_pos /\ start_pos < Len(lines) THEN lines[start_pos + 1] ELSE <<>>
        body_start ==
            IF section_name = "k1" /\ is_product_name_line(start_line) THEN start_pos
            ELSE start_pos + 1
    IN  [start |-> start_pos, body_start |-> body_start, end |-> end_pos]

\* the body without the second boilerplate filter
BodyLinesKeepingBoilerplate(lines, body_start, end_pos) ==
    LET part == Slice(lines, body_start, end_pos)
    IN  AtPlaces(part, {k \in DOMAIN part : Strip(part[k]) # <<>>})

\* the lines of lines[body_start:end_pos] that are not blank and not boilerplate
BodyLines(lines, body_start, end_pos) ==
    LET part == Slice(lines, body_start, end_pos)
    IN  AtPlaces(part, {k \in DOMAIN part : Strip(part[k]) # <<>> /\ ~is_header_line(part[k])})

Windows(lines, section_positions) ==
    [key \in DOMAIN section_positions |-> Window(lines, section_positions, key)]

BuildSections(lines, windows) ==
    [key \in DOMAIN windows |-> Join(BodyLines(lines, windows[key].body_start, windows[key].end))]

\* the message of the exception pdfplumber.open raises for a file it cannot read
PDF_OPEN_ERROR == "cannot open pdf"

\* ------------------------------------------------------------------------
\* The batch loop of the upload page (render)
\* ------------------------------------------------------------------------
INVALID_ERROR == "no %PDF header"

\* entries: the uploads with bytes, then the uploads the name filter keeps
ReadEntries(files, filter) ==
    LET nonempty == AtPlaces(files, {k \in DOMAIN files : files[k].kind # "empty"})
    IN  IF Strip(filter) # <<>>
        THEN AtPlaces(nonempty, {k \in DOMAIN nonempty :
                                    Contains(LowerStr(nonempty[k].name), LowerStr(Strip(filter)))})
        ELSE nonempty

\* the call of extract_sections without the handler around it: what it
\* raises leaves the loop.  outcome is what the call ended with.
CallUnguarded(outcome) ==
    [escapes |-> outcome.raised, raised |-> outcome.raised, error |-> outcome.error,
     sections |-> outcome.sections]

\* try: sections = extract_sections(..) or {} .. except Exception as e: the
\* handler takes whatever extract_sections raises, nothing leaves the loop
CallGuarded(outcome) ==
    [escapes |-> FALSE, raised |-> outcome.raised, error |-> outcome.error,
     sections |-> outcome.sections]

\* the local variable sections keeps the value of the iteration before
LoopKeepSections(previous) == previous

\* sections = {} at the top of every iteration
LoopInitSections(previous) == EmptyMap

\* the row of an entry without the %PDF header, filed as an error
InvalidRowAsError(ent, sections0) ==
    [file |-> ent.name, status |-> "ERROR", sections |-> sections0, err |-> INVALID_ERROR]

\* the row of an entry without the %PDF header; sections0 is the value of
\* the local variable sections
InvalidRow(ent, sections0) ==
    [file |-> ent.name, status |-> "INVALID", sections |-> sections0, err |-> INVALID_ERROR]

\* the row of an entry extract_sections was called for; r is what the
\* guarded call ended with.  Of the row the file, the status, the sections
\* and the error are kept; the summaries that the parsers of sections 1, 2
\* and 3 add to it are left out.
ProcessRow(ent, r, sections0) ==
    IF r.raised
    THEN [file |-> ent.name, status |-> "ERROR", sections |-> sections0, err |-> r.error]
    ELSE [file |-> ent.name, status |-> "OK", sections |-> r.sections, err |-> ""]

\* ------------------------------------------------------------------------
\* State
\* ------------------------------------------------------------------------
VARIABLES
    pdf,                \* extract_sections: the document at pdf_path
    pc,                 \* extract_sections: the place reached
    page_texts,         \* extract_sections: the pages extract_text_pages_hybrid returns
    full_text_raw,
    lines,
    full_text_clean,
    section_positions,
    windows,            \* start_pos, body_start and end_pos of every section
    sections,           \* the map extract_sections returns
    error,              \* the message of the exception extract_sections raises
    uploaded_files,     \* render: the uploads
    name_filter,        \* render: the file name filter
    entries,
    rows,
    row_sections,       \* render: the local variable sections
    bpc                 \* render: the place reached

vars == <<pdf, pc, page_texts, full_text_raw, lines, full_text_clean, section_positions,
          windows, sections, error, uploaded_files, name_filter, entries, rows,
          row_sections, bpc>>

pipeline_vars == <<pdf, pc, page_texts, full_text_raw, lines, full_text_clean,
                   section_positions, windows, sections, error>>
batch_vars == <<uploaded_files, name_filter, entries, rows, row_sections, bpc>>

\* ------------------------------------------------------------------------
\* Documents
\* ------------------------------------------------------------------------
SeqsUpTo(S, n) == UNION {[1..k -> S] : k \in 0..n}

NoOcr(pages) == [i \in DOMAIN pages |-> [ok |-> FALSE, text |-> <<>>]]

\* a document with a text layer on a machine without Poppler
TextPdf(name, pages) ==
    [kind |-> "pdf", name |-> name, readable |-> TRUE, layer |-> pages,
     convert |-> "no_poppler", ocr |-> NoOcr(pages)]

\* a scanned document: no text layer, the pages are read by OCR when OCR works
ScannedPdf(name, pages, convert, ocr_ok) ==
    [kind |-> "pdf", name |-> name, readable |-> TRUE,
     layer |-> [i \in DOMAIN pages |-> <<>>], convert |-> convert,
     ocr |-> [i \in DOMAIN pages |-> [ok |-> ocr_ok, text |-> IF ocr_ok THEN pages[i] ELSE <<>>]]]

\* a file with the %PDF header that pdfplumber cannot open
CorruptPdf(name) ==
    [kind |-> "pdf", name |-> name, readable |-> FALSE, layer |-> <<>>,
     convert |-> "ok", ocr |-> <<>>]

OtherFile(name, kind) ==
    [kind |-> kind, name |-> name, readable |-> FALSE, layer |-> <<>>,
     convert |-> "ok", ocr |-> <<>>]

ConvertOutcomes == {"ok", "no_poppler", "not_found", "error"}

\* The lines of the documents: "1. " + product name + ": A"; the headings of
\* sections 2, 3, 9 and 11 as the standard form writes them; "1." and the
\* product-name field on lines of their own; bullets that carry the numbers 4
\* and 10; text; a blank line; a document-number line (boilerplate); a line of
\* running text; the title of a table of contents and its entries ("1) " and
\* a keyword of TOC_SECTION_KEYS that no heading pattern accepts).
H1_PRODUCT == <<"1", ".", " ", "je", "pum", "myeong", ":", " ", "A">>
H2 == <<"2", ".", " ", "qyu", "hae", "seong", "MIDDOT", "qwi", "heom", "seong">>
H3 == <<"3", ".", " ", "gu", "seong", "seong", "bun">>
H9 == <<"9", ".", " ", "mul", "ri", "hwa", "hag", "jeog", " ", "teug", "seong">>
H11 == <<"1", "1", ".", " ", "dog", "seong", "qe", " ", "gwan", "han", " ", "jeong", "bo">>
ONE_DOT == <<"1", ".">>
PRODUCT_LINE == <<"je", "pum", "myeong", ":", " ", "A">>
BULLET4 == <<"4", ")", " ", "s", "e", "e">>
BULLET10 == <<"1", "0", ".", " ", "x">>
BODY == <<"a", "a", "a">>
BLANK == <<>>
DOC_NUMBER == <<"mun", "seo", "beon", "ho", " ", "7">>
NOTE == <<"n", "o", "t", "e">>
TOC_TITLE == <<"mog", "cha">>
TocEntry ==
    <<<<"1", ")", " ", "hwa", "hag">>,
      <<"2", ")", " ", "hoe", "sa">>,
      <<"3", ")", " ", "gu", "seong">>,
      <<"4", ")", " ", "qeung", "geub">>,
      <<"5", ")", " ", "bo", "gwan">>,
      <<"6", ")", " ", "cham", "go">>>>

\* running text around the lines t: the lines t then lie outside the first
\* HEADER_SCAN_LINES lines of the document and outside the edges of the page
Notes(n) == [k \in 1..n |-> NOTE]
Embedded(t) == Notes(HEADER_SCAN_LINES) \o t \o Notes(PAGE_EDGE_LINES)

\* the heading of section 3 ending in a colon (sentence-like), and a line of
\* a composition table
H3_COLON == <<"3", ".", " ", "gu", "seong", "seong", "bun", ":">>
CAS_LINE == <<"C", "A", "S", " ", "1">>

FileA == <<"a", ".", "p", "d", "f">>
FileB == <<"b", ".", "p", "d", "f">>


\* ------------------------------------------------------------------------
\* extract_sections, step by step
\* ------------------------------------------------------------------------
PipelineStart(doc) ==
    /\ pdf = doc
    /\ pc = "start"
    /\ page_texts = <<>>
    /\ full_text_raw = <<>>
    /\ lines = <<>>
    /\ full_text_clean = <<>>
    /\ section_positions = EmptyMap
    /\ windows = EmptyMap
    /\ sections = EmptyMap
    /\ error = ""

BatchIdle ==
    /\ uploaded_files = <<>>
    /\ name_filter = <<>>
    /\ entries = <<>>
    /\ rows = <<>>
    /\ row_sections = EmptyMap
    /\ bpc = "idle"

\* page_texts = extract_text_pages_hybrid(pdf_path); pdfplumber.open raises
\* on a file it cannot read and nothing in extract_sections catches it
ExtractTextPages ==
    /\ pc = "start"
    /\ IF pdf.readable
       THEN /\ page_texts' = extract_text_pages_hybrid(pdf)
            /\ pc' = "pages"
            /\ error' = error
       ELSE /\ page_texts' = page_texts
            /\ pc' = "raised"
            /\ error' = PDF_OPEN_ERROR
    /\ UNCHANGED <<pdf, full_text_raw, lines, full_text_clean, section_positions, windows, sections>>
    /\ UNCHANGED batch_vars

JoinAndClean ==
    /\ pc = "pages"
    /\ full_text_raw' = Join(page_texts)
    /\ lines' = CleanLines(Join(page_texts))
    /\ full_text_clean' = Join(CleanLines(Join(page_texts)))
    /\ pc' = "clean"
    /\ UNCHANGED <<pdf, page_texts, section_positions, windows, sections, error>>
    /\ UNCHANGED batch_vars

FindStarts ==
    /\ pc = "clean"
    /\ section_positions' = StrategyPositions(lines)
    /\ pc' = "strategies"
    /\ UNCHANGED <<pdf, page_texts, full_text_raw, lines, full_text_clean, windows, sections, error>>
    /\ UNCHANGED batch_vars

FallbackRaw ==
    /\ pc = "strategies"
    /\ section_positions' = FallbackPositions(section_positions, full_text_raw)
    /\ pc' = "fallback_raw"
    /\ UNCHANGED <<pdf, page_texts, full_text_raw, lines, full_text_clean, windows, sections, error>>
    /\ UNCHANGED batch_vars

FallbackClean ==
    /\ pc = "fallback_raw"
    /\ section_positions' = FallbackPositions(section_positions, full_text_clean)
    /\ pc' = "fallback_clean"
    /\ UNCHANGED <<pdf, page_texts, full_text_raw, lines, full_text_clean, windows, sections, error>>
    /\ UNCHANGED batch_vars

BuildBodies ==
    /\ pc = "fallback_clean"
    /\ IF DOMAIN section_positions = {}
       THEN /\ windows' = EmptyMap
            /\ sections' = EmptyMap
       ELSE /\ windows' = Windows(lines, section_positions)
            /\ sections' = BuildSections(lines, Windows(lines, section_positions))
    /\ pc' = "done"
    /\ UNCHANGED <<pdf, page_texts, full_text_raw, lines, full_text_clean, section_positions, error>>
    /\ UNCHANGED batch_vars

Next ==
    \/ ExtractTextPages
    \/ JoinAndClean
    \/ FindStarts
    \/ FallbackRaw
    \/ FallbackClean
    \/ BuildBodies

\* ------------------------------------------------------------------------
\* Documents of one page: a heading, its body, list bullets, a boilerplate
\* line and a heading split over two lines
\* ------------------------------------------------------------------------
MaxLines == 3
MaxPaddedLines == 3
MaxScannedLines == 1

Catalogue == {H3, BULLET4, BODY, BLANK, H11, ONE_DOT, PRODUCT_LINE, H1_PRODUCT, DOC_NUMBER}
\* the lines that are embedded in running text
PaddedCatalogue == {H3, BODY, DOC_NUMBER, H1_PRODUCT}

MainDocs ==
    {CorruptPdf(FileA)}
    \cup {TextPdf(FileA, <<Join(t)>>) : t \in SeqsUpTo(Catalogue, MaxLines)}
    \cup {TextPdf(FileA, <<Join(Embedded(t))>>) : t \in SeqsUpTo(PaddedCatalogue, MaxPaddedLines)}
    \cup {ScannedPdf(FileA, <<Join(t)>>, c, ok) :
             t \in SeqsUpTo(Catalogue, MaxScannedLines), c \in ConvertOutcomes, ok \in BOOLEAN}

Init == BatchIdle /\ \E doc \in MainDocs : PipelineStart(doc)

Spec == Init /\ [][Next]_vars


\* ------------------------------------------------------------------------
\* Properties of extract_sections
\* ------------------------------------------------------------------------
Returned == pc = "done"
CanonicalKeys == {ALL_SECTION_KEYS[i] : i \in DOMAIN ALL_SECTION_KEYS}

\* the line of the cleaned sequence at the 0-based place i
LineAt(i) == lines[i + 1]

\* C1: the windows resolved for different sections, taken in order of start
\* index, never overlap: the window of a section ends at or before the start
\* of every other section that starts at or after it.
C1_NonOverlap ==
    Returned =>
        \A a \in DOMAIN windows : \A b \in DOMAIN windows \ {a} :
            windows[a].start <= windows[b].start => windows[a].end <= windows[b].start

\* C2: for a section with a configured next-number boundary, no line of the
\* returned body matches head_only(next number).
C2_ExactBoundary ==
    Returned =>
        \A key \in DOMAIN sections \cap DOMAIN BOUNDARY_NEXT_NUMBER :
            \A k \in DOMAIN Split(sections[key]) :
                ~Search(Split(sections[key])[k], head_only(BOUNDARY_NEXT_NUMBER[key]),
                        Flags(TRUE, FALSE))

\* a section whose body was cut at a bullet carrying the next number, before
\* the next found section and before the end of the document
C2_Witness ==
    /\ Returned
    /\ \E key \in DOMAIN windows \cap DOMAIN BOUNDARY_NEXT_NUMBER :
           /\ windows[key].end < Len(lines)
           /\ \A other \in DOMAIN windows : windows[other].start # windows[key].end
           /\ Search(LineAt(windows[key].end), head_only(BOUNDARY_NEXT_NUMBER[key]),
                     Flags(TRUE, FALSE))
           /\ sections[key] # <<>>

\* C4: every key of the returned map is one of the 16 canonical keys, and
\* the map holds one body, window and start per key.
C4_KeySubset ==
    Returned =>
        /\ DOMAIN sections \subseteq CanonicalKeys
        /\ Cardinality(CanonicalKeys) = 16
        /\ DOMAIN sections = DOMAIN section_positions
        /\ DOMAIN windows = DOMAIN section_positions

\* a returned map with a key that only the fallback table produced
C4_Witness ==
    /\ Returned
    /\ \E key \in DOMAIN sections : find_section_start(lines, find_section_patterns[key], key) = -1

\* some strategy or fallback produces a start for the key
StartFound(key) ==
    \/ /\ key \in DOMAIN find_section_patterns
       /\ find_section_start(lines, find_section_patterns[key], key) # -1
    \/ /\ key \in DOMAIN FALLBACK_HEAD_RXS
       /\ \/ fallback_find_head(full_text_raw, FALLBACK_HEAD_RXS[key]) # -1
          \/ fallback_find_head(full_text_clean, FALLBACK_HEAD_RXS[key]) # -1

\* C5: a key is in the returned map if and only if a strategy produced a
\* start for it; finding no start raises nothing (only a file that cannot be
\* opened does), and a document without any start yields the empty map.
C5_PresentIffFound ==
    /\ pc = "raised" => ~pdf.readable
    /\ pdf.readable => pc # "raised"
    /\ Returned => DOMAIN sections = {key \in CanonicalKeys : StartFound(key)}
    /\ Returned /\ (\A key \in CanonicalKeys : ~StartFound(key)) => sections = EmptyMap

\* a readable document with text in which no section is found: the empty map
C5_Witness ==
    /\ Returned
    /\ pdf.readable
    /\ \E k \in DOMAIN lines : Strip(lines[k]) # <<>>
    /\ \A key \in CanonicalKeys : ~StartFound(key)
    /\ sections = EmptyMap


\* the lines at the 0-based places from..to-1 that are neither blank nor boilerplate
KeptLines(from, to) ==
    LET places == {i \in from..(to - 1) : i < Len(lines) /\ Strip(LineAt(i)) # <<>>
                                                         /\ ~is_header_line(LineAt(i))}
    IN  AtPlaces(lines, {i + 1 : i \in places})

\* section 1 starts on a line that is itself the product-name field
StartsOnProductName(key) ==
    /\ key = "k1"
    /\ windows[key].start < Len(lines)
    /\ is_product_name_line(LineAt(windows[key].start))

\* C8 as stated: every body is the kept lines at start+1 .. end-1.
C8_BodyFromStartPlusOne ==
    Returned =>
        \A key \in DOMAIN sections :
            sections[key] = Join(KeptLines(windows[key].start + 1, windows[key].end))

\* C8: every body is the kept lines of its window joined by newlines, where
\* the window runs from start+1 to end-1, and from start itself for section 1
\* when its start line is the product-name field; no line of a body is blank
\* or boilerplate.
C8_BodyOfWindow ==
    Returned =>
        \A key \in DOMAIN sections :
            /\ sections[key] =
                   Join(KeptLines(IF StartsOnProductName(key) THEN windows[key].start
                                  ELSE windows[key].start + 1, windows[key].end))
            /\ sections[key] # <<>> =>
                   \A k \in DOMAIN Split(sections[key]) :
                       /\ Strip(Split(sections[key])[k]) # <<>>
                       /\ ~is_header_line(Split(sections[key])[k])

\* a window that holds a boilerplate line and a body line: the body leaves
\* the boilerplate line out
C8_Witness ==
    /\ Returned
    /\ \E key \in DOMAIN sections :
           /\ ~StartsOnProductName(key)
           /\ sections[key] # <<>>
           /\ \E i \in (windows[key].start + 1)..(windows[key].end - 1) :
                  i < Len(lines) /\ is_header_line(LineAt(i))


\* ------------------------------------------------------------------------
\* Documents of several pages: tables of contents, with and without a
\* section head, and pages of text
\* ------------------------------------------------------------------------
MaxPages == 3
MaxScannedPages == 2

PageTocHint == Join(<<TOC_TITLE, TocEntry[1]>>)
PageTocWithHead == Join(<<TOC_TITLE, H3>>)
PageTocNumbered == Join(TocEntry)
PageBody == Join(<<BODY, BULLET4>>)
PageHead == Join(<<H3, BODY>>)

PageCatalogue == {PageTocHint, PageTocWithHead, PageTocNumbered, PageBody, PageHead}

PagesDocs ==
    {TextPdf(FileA, ps) : ps \in SeqsUpTo(PageCatalogue, MaxPages)}
    \cup {ScannedPdf(FileA, ps, c, ok) :
             ps \in SeqsUpTo(PageCatalogue, MaxScannedPages), c \in ConvertOutcomes, ok \in BOOLEAN}
    \cup {CorruptPdf(FileA)}

InitPages == BatchIdle /\ \E doc \in PagesDocs : PipelineStart(doc)

SpecPages == InitPages /\ [][Next]_vars

PagesExtracted == pc = "pages"

\* a page that is a table of contents and holds no section head
TocWithoutHead(t) == is_toc_page(t) /\ ~page_contains_section_head(t)

\* C9: extract_text_pages_hybrid drops a page if and only if the page is a
\* table of contents and holds no section head; the other pages are kept in
\* their order.
C9_ProtectFirst ==
    PagesExtracted =>
        LET texts == PageTextsBeforeFilter(pdf)
        IN  page_texts = AtPlaces(texts, {i \in DOMAIN texts : ~TocWithoutHead(texts[i])})

\* three pages: a table of contents with a section head is kept, one
\* without is dropped, and a page of text is kept
C9_Witness ==
    /\ PagesExtracted
    /\ LET texts == PageTextsBeforeFilter(pdf)
       IN  /\ \E i \in DOMAIN texts : is_toc_page(texts[i]) /\ page_contains_section_head(texts[i])
           /\ \E i \in DOMAIN texts : TocWithoutHead(texts[i])
           /\ \E i \in DOMAIN texts : ~is_toc_page(texts[i])
           /\ Len(page_texts) = 2

\* ------------------------------------------------------------------------
\* Documents of one page of numbered entries, at the thresholds of
\* is_toc_page
\* ------------------------------------------------------------------------
MaxPageEntries == 7
MaxFillLines == 15

FILL == <<"a">>
BLANK_PAGE == <<" ", "\n", " ">>

\* the entry "k) 화학" with a section keyword, or "k) see" without one
PageEntry(k, keyed) ==
    Digits(k) \o <<")", " ">> \o (IF keyed THEN <<"hwa", "hag">> ELSE <<"s", "e", "e">>)

\* a page of n entries numbered from off + 1, the first j of them with a
\* keyword, and m lines of text, under the title of a table of contents or
\* not
NumberedPage(hinted, off, n, j, m) ==
    Join((IF hinted THEN <<TOC_TITLE>> ELSE <<>>)
         \o [k \in 1..n |-> PageEntry(off + k, k <= j)]
         \o [k \in 1..m |-> FILL])

TocPageDocs ==
    {CorruptPdf(FileA), TextPdf(FileA, <<BLANK_PAGE>>)}
    \cup {TextPdf(FileA, <<NumberedPage(hinted, off, n, j, m)>>) :
             hinted \in BOOLEAN, off \in {0, 13},
             n \in 0..MaxPageEntries, j \in 0..2,
             m \in {0, MaxFillLines - 1, MaxFillLines}}
    \cup {TextPdf(FileA, <<NumberedPage(FALSE, 0, n, n, m)>>) :
             n \in 0..MaxPageEntries, m \in {0, MaxFillLines - 1, MaxFillLines}}

InitTocPage == BatchIdle /\ \E doc \in TocPageDocs : PipelineStart(doc)

SpecTocPage == InitTocPage /\ [][Next]_vars

\* the page holds one of the phrases of a table of contents, in any case
HasHintPhrase(t) == \E h \in TOC_HINT_WORDS : Contains(LowerStr(t), h)

\* the lines of the page that are not blank
PageRows(t) == LET ls == Split(t) IN AtPlaces(ls, {k \in DOMAIN ls : Strip(ls[k]) # <<>>})

\* the places of the lines led by an enumeration of a number 1..16
EnumeratedRows(given) == {k \in DOMAIN given : EnumNumber(given[k]) \in 1..16}

\* the three thresholds: 6 distinct numbers, 30% of the lines enumerated,
\* 10% of the lines with a section keyword
MeetsPageThresholds(given) ==
    /\ Cardinality({EnumNumber(given[k]) : k \in EnumeratedRows(given)}) >= 6
    /\ 10 * Cardinality(EnumeratedRows(given)) >= 3 * Len(given)
    /\ 10 * Cardinality({k \in DOMAIN given : HasTocKeyword(given[k])}) >= Len(given)

\* C24: a page that is not empty is a table of contents if and only if it
\* holds a hint phrase or meets the three thresholds over its non-blank
\* lines; an empty page is never one.
C24_TocPageRule ==
    PagesExtracted =>
        LET texts == PageTextsBeforeFilter(pdf)
        IN  \A i \in DOMAIN texts :
                LET t == texts[i]
                    given == PageRows(t)
                IN  is_toc_page(t) <=>
                        (t # <<>> /\ (HasHintPhrase(t) \/ MeetsPageThresholds(given)))

\* a page without a hint phrase, 6 of its 20 lines enumerated and 2 of them
\* with a keyword, is taken for a table of contents and dropped
C24_Witness ==
    /\ PagesExtracted
    /\ LET texts == PageTextsBeforeFilter(pdf)
       IN  /\ Len(texts) = 1
           /\ ~HasHintPhrase(texts[1])
           /\ Len(PageRows(texts[1])) = 20
           /\ Cardinality(EnumeratedRows(PageRows(texts[1]))) = 6
           /\ Cardinality({k \in DOMAIN PageRows(texts[1]) : HasTocKeyword(PageRows(texts[1])[k])}) = 2
           /\ is_toc_page(texts[1])
    /\ page_texts = <<>>

\* ------------------------------------------------------------------------
\* Documents whose pages have a thin text layer, none or a full one, read
\* by OCR page by page
\* ------------------------------------------------------------------------
MaxOcrPages == 2
LongLines == 10

\* a document with a text layer per page and an OCR outcome per page
HybridPdf(name, layer, convert, ocr) ==
    [kind |-> "pdf", name |-> name, readable |-> TRUE, layer |-> layer,
     convert |-> convert, ocr |-> ocr]

\* a text layer of OCR_TEXT_MIN_CHARS characters or more
PageLong == Join(Notes(LongLines))

LayerCatalogue == {<<>>, BODY, PageLong}
OcrOutcomes ==
    {[ok |-> FALSE, text |-> <<>>],
     [ok |-> TRUE, text |-> PageHead],
     [ok |-> TRUE, text |-> PageTocNumbered]}

OcrDocs ==
    {CorruptPdf(FileA)}
    \cup UNION {{HybridPdf(FileA, layer, c, ocr) :
                    layer \in [1..n -> LayerCatalogue], ocr \in [1..n -> OcrOutcomes],
                    c \in ConvertOutcomes} : n \in 1..MaxOcrPages}

InitOcr == BatchIdle /\ \E doc \in OcrDocs : PipelineStart(doc)

SpecOcr == InitOcr /\ [][Next]_vars

\* the pages as the text layer gives them
TextLayer(doc) == [i \in DOMAIN doc.layer |-> strip_page_edges(doc.layer[i])]

\* the pages whose text layer has fewer than OCR_TEXT_MIN_CHARS characters
LowYield(doc) == {i \in DOMAIN doc.layer : Len(Strip(TextLayer(doc)[i])) < OCR_TEXT_MIN_CHARS}

\* Poppler is missing or not found, the rendering of the pages raises, or
\* the OCR engine raises on every page it is given
OcrUnavailable(doc) ==
    \/ doc.convert # "ok"
    \/ \A i \in LowYield(doc) : ~doc.ocr[i].ok

\* C11: when the page rendering or the OCR engine is missing or raises,
\* extract_text_pages_hybrid raises nothing and returns the pages of the
\* text layer, filtered for tables of contents, as with OCR disabled.
C11_OcrUnavailable ==
    /\ pdf.readable => pc # "raised"
    /\ PagesExtracted /\ OcrUnavailable(pdf) => page_texts = FilterPages(TextLayer(pdf))

\* a page with a thin text layer that OCR would have read as a section
\* head, on a machine where the rendering fails: the thin text is returned
C11_Witness ==
    /\ PagesExtracted
    /\ pdf.convert # "ok"
    /\ \E i \in LowYield(pdf) :
           /\ pdf.layer[i] = BODY
           /\ pdf.ocr[i].ok
           /\ pdf.ocr[i].text = PageHead
    /\ \E k \in DOMAIN page_texts : page_texts[k] = BODY
    /\ \A k \in DOMAIN page_texts : page_texts[k] # PageHead

\* the text of page i after the OCR pass, every low-yield page on its own
TextAfterOcr(doc, i) ==
    IF i \in LowYield(doc) /\ doc.ocr[i].ok
    THEN strip_page_edges(doc.ocr[i].text)
    ELSE TextLayer(doc)[i]

\* C12: when the OCR of a low-yield page raises, that page keeps the text
\* of its text layer, the other low-yield pages are still read by OCR, and
\* the extraction ends without raising.
C12_PageOcrFailure ==
    /\ pdf.readable => pc # "raised"
    /\ PagesExtracted /\ pdf.convert = "ok" =>
           page_texts = FilterPages([i \in DOMAIN pdf.layer |-> TextAfterOcr(pdf, i)])

\* two low-yield pages: the OCR of the first raises and it keeps its thin
\* text, the second is still read by OCR
C12_Witness ==
    /\ PagesExtracted
    /\ pdf.convert = "ok"
    /\ Len(pdf.layer) = 2
    /\ LowYield(pdf) = {1, 2}
    /\ ~pdf.ocr[1].ok
    /\ pdf.layer[1] = BODY
    /\ pdf.ocr[2].ok
    /\ page_texts = <<BODY, strip_page_edges(pdf.ocr[2].text)>>

\* ------------------------------------------------------------------------
\* Documents with lines that begin with a number: headings, list bullets
\* and quantities
\* ------------------------------------------------------------------------
MaxNumberedLines == 3

BULLET2 == <<"2", ")", " ", "s", "e", "e">>
DOSE45 == <<"4", "5", " ", "m", "g">>

NumberedCatalogue == {H1_PRODUCT, BULLET2, BODY, H3, BULLET4, DOSE45}

BoundsDocs ==
    {CorruptPdf(FileA)}
    \cup {TextPdf(FileA, <<Join(t)>>) : t \in SeqsUpTo(NumberedCatalogue, MaxNumberedLines)}

InitBounds == BatchIdle /\ \E doc \in BoundsDocs : PipelineStart(doc)

SpecBounds == InitBounds /\ [][Next]_vars

\* G: the smallest accepted start of another section after the start of key,
\* the number of clean lines when there is none
NextStartAfter(key) ==
    LET later == {section_positions[o] : o \in {x \in DOMAIN section_positions \ {key} :
                                                   section_positions[x] > section_positions[key]}}
    IN  IF later = {} THEN Len(lines) ELSE Min(later)

\* E: the next-number boundary of a key that has one configured
ExactBoundary(key) ==
    find_next_boundary_for(lines, section_positions[key], BOUNDARY_NEXT_NUMBER[key])

\* C13: for every found section the resolved end is min(G, E) when a
\* next-number boundary is configured for it, and G otherwise.
C13_ResolvedEnd ==
    Returned =>
        \A key \in DOMAIN windows :
            /\ windows[key].start = section_positions[key]
            /\ windows[key].end =
                   IF key \in DOMAIN BOUNDARY_NEXT_NUMBER
                   THEN Min({NextStartAfter(key), ExactBoundary(key)})
                   ELSE NextStartAfter(key)

\* one document state with a section cut at its exact boundary before the
\* next found section, and a section without a configured boundary that
\* runs to the next found section
C13_Witness ==
    /\ Returned
    /\ \E key \in DOMAIN windows \cap DOMAIN BOUNDARY_NEXT_NUMBER :
           /\ ExactBoundary(key) < NextStartAfter(key)
           /\ \E o \in DOMAIN windows : section_positions[o] = NextStartAfter(key)
           /\ windows[key].end = ExactBoundary(key)
    /\ \E key \in DOMAIN windows \ DOMAIN BOUNDARY_NEXT_NUMBER :
           windows[key].end = NextStartAfter(key)

\* the number of a canonical section
SectionNumber(key) == CHOOSE n \in DOMAIN ALL_SECTION_KEYS : ALL_SECTION_KEYS[n] = key

\* C14: the body of every canonical section N from 1 to 15 ends at or
\* before the first later line whose leading token matches N+1: no line
\* strictly inside its window matches head_only(N+1).
C14_BoundaryForAllButLast ==
    Returned =>
        \A key \in DOMAIN windows :
            SectionNumber(key) <= 15 =>
                \A i \in (windows[key].start + 1)..(windows[key].end - 1) :
                    ~Search(FlattenSpaces(LineAt(i)), head_only(SectionNumber(key) + 1),
                            Flags(TRUE, FALSE))

\* the digits of n followed by one more digit at the head of the line: the
\* line is led by a longer number
LongerNumber(n) ==
    Cat(<<Bol, Star(Cls(LeadChars)),
          Alt(<<Cat(<<Opt(Lit(<<"[">>)), Lit(Digits(n)), Cls(DigitChars)>>),
                Cat(<<Opt(Lit(<<"je">>)), WS, Lit(Digits(n)), Cls(DigitChars)>>)>>)>>)

\* the leading numeric token of the line is n itself, in one of the forms
\* of sec(n)
LedByNumber(line, n) ==
    /\ Search(FlattenSpaces(line), head_only(n), Flags(TRUE, FALSE))
    /\ ~Search(FlattenSpaces(line), LongerNumber(n), Flags(TRUE, FALSE))

\* C15: find_next_boundary_for(lines, s, n) is the smallest index after s of
\* a line whose leading numeric token is n itself, and the number of lines
\* when there is none; a line led by a different number is never taken.
C15_BoundaryIsNextNumber ==
    Returned =>
        \A key \in DOMAIN windows \cap DOMAIN BOUNDARY_NEXT_NUMBER :
            \A s \in 0..Len(lines) :
                LET n == BOUNDARY_NEXT_NUMBER[key]
                    led == {i \in (s + 1)..(Len(lines) - 1) : LedByNumber(LineAt(i), n)}
                IN  find_next_boundary_for(lines, s, n) =
                        IF led = {} THEN Len(lines) ELSE Min(led)

\* ------------------------------------------------------------------------
\* Documents for the strategy chain: headings the exact patterns accept, a
\* heading of another section with the keywords of section 1, a title
\* without its number, and a heading split over lines, with and without a
\* boilerplate line inside it
\* ------------------------------------------------------------------------
MaxStrategyLines == 3
MaxSplitLines == 3

TITLE2 == <<"qyu", "hae", "seong">>

StrategyCatalogue == {H3, H11, TITLE2, ONE_DOT, PRODUCT_LINE, BODY}
SplitCatalogue == {ONE_DOT, DOC_NUMBER, PRODUCT_LINE}

\* running text around the lines t: the lines t lie outside the edges of
\* the page and inside the first HEADER_SCAN_LINES lines of the document
Inside(t) == Notes(PAGE_EDGE_LINES) \o t \o Notes(PAGE_EDGE_LINES)

StrategyDocs ==
    {CorruptPdf(FileA)}
    \cup {TextPdf(FileA, <<Join(t)>>) : t \in SeqsUpTo(StrategyCatalogue, MaxStrategyLines)}
    \cup {TextPdf(FileA, <<Join(Inside(t))>>) : t \in SeqsUpTo(SplitCatalogue, MaxSplitLines)}

InitStrategies == BatchIdle /\ \E doc \in StrategyDocs : PipelineStart(doc)

SpecStrategies == InitStrategies /\ [][Next]_vars

\* the hits of each strategy for a key, each taken on its own
Strategy1Hits(key) ==
    LET c == find_all_section_starts(lines, find_section_patterns[key], key)
    IN  {c[k] : k \in DOMAIN c}

Strategy2Hits(key) ==
    {i \in 0..(Len(lines) - 1) : is_probably_section_line(LineAt(i), SECNUM[key])}

Strategy3Hit(key) ==
    fuzzy_find_section_line([k \in DOMAIN lines |-> Filter(lines[k], WSChars)],
                            FUZZY_CANDIDATES[key])

Strategy4Hit(key, full_text) ==
    IF key \in DOMAIN FALLBACK_HEAD_RXS
    THEN fallback_find_head(full_text, FALLBACK_HEAD_RXS[key])
    ELSE -1

\* the first strategy, in the order 1, 2, 3, 4a, 4b, that has a hit for the
\* key; 0 when none has
FirstStrategy(key) ==
    IF Strategy1Hits(key) # {} THEN 1
    ELSE IF Strategy2Hits(key) # {} THEN 2
    ELSE IF Strategy3Hit(key) # -1 THEN 3
    ELSE IF Strategy4Hit(key, full_text_raw) # -1 THEN 4
    ELSE IF Strategy4Hit(key, full_text_clean) # -1 THEN 5
    ELSE 0

\* the start is a hit of the strategy numbered n
StartFromStrategy(key, n) ==
    /\ key \in DOMAIN section_positions
    /\ CASE n = 1 -> section_positions[key] \in Strategy1Hits(key)
         [] n = 2 -> section_positions[key] \in Strategy2Hits(key)
         [] n = 3 -> section_positions[key] = Strategy3Hit(key)
         [] n = 4 -> section_positions[key] = Strategy4Hit(key, full_text_raw)
         [] n = 5 -> section_positions[key] = Strategy4Hit(key, full_text_clean)

\* after both fallback loops: every key has the start of its first strategy
\* with a hit, and no start without one
StartsInStrategyOrder ==
    pc \in {"fallback_clean", "done"} =>
        \A key \in CanonicalKeys :
            IF FirstStrategy(key) = 0 THEN key \notin DOMAIN section_positions
            ELSE StartFromStrategy(key, FirstStrategy(key))

\* a step of extract_sections leaves every start it finds in place
StartsKept ==
    \A key \in DOMAIN section_positions :
        /\ key \in DOMAIN section_positions'
        /\ section_positions'[key] = section_positions[key]

\* C16: the accepted start of a section comes from the first strategy with
\* a hit, in the order exact regex, AND-gated fuzzy, global fuzzy line,
\* cross-line regex on the raw text, cross-line regex on the clean text; a
\* start once accepted is never replaced by a later strategy.
C16_StrategyOrder == [](StartsInStrategyOrder) /\ [][StartsKept]_vars

\* a start that the cross-line regex gave on the clean text, after the
\* three line strategies and the search of the raw text found nothing
C16_Witness ==
    /\ Returned
    /\ \E key \in DOMAIN section_positions :
           /\ FirstStrategy(key) = 5
           /\ section_positions[key] = Strategy4Hit(key, full_text_clean)

\* the three line strategies have no hit for the key
NoLineStrategyHit(key) ==
    /\ Strategy1Hits(key) = {}
    /\ Strategy2Hits(key) = {}
    /\ Strategy3Hit(key) = -1

\* C17: the chain of four strategies applies to each of the 16 canonical
\* sections: a section for which strategies 1 to 3 have no hit is searched
\* by the cross-line regex of strategy 4.
C17_FallbackForEverySection ==
    pc \in {"fallback_clean", "done"} =>
        \A key \in CanonicalKeys :
            NoLineStrategyHit(key) => key \in DOMAIN FALLBACK_HEAD_RXS

\* the leading numeric token of the line is n itself, in one of the forms
\* of sec(n), and not a longer number that begins with the digits of n
LedBySection(line, n) ==
    /\ Search(FlattenSpaces(line), sec(n), Flags(FALSE, FALSE))
    /\ ~Search(FlattenSpaces(line), LongerNumber(n), Flags(FALSE, FALSE))

\* C19: strategy 2 accepts a line for section n if and only if the leading
\* numeric token of the line is n, a 'must' keyword is found in it and an
\* 'also' keyword is found in it (exactly or by a token of similarity 0.78
\* or more); a line led by the number of another section is never accepted.
C19_AndGate ==
    pc = "strategies" =>
        \A key \in CanonicalKeys : \A i \in 0..(Len(lines) - 1) :
            is_probably_section_line(LineAt(i), SECNUM[key])
                <=> /\ LedBySection(LineAt(i), SECNUM[key])
                    /\ contains_near(FlattenSpaces(LineAt(i)), PROB_KEYS[SECNUM[key]].must)
                    /\ contains_near(FlattenSpaces(LineAt(i)), PROB_KEYS[SECNUM[key]].also)

\* the heading match of the key begins on the clean line at the place s:
\* the line is a hit of a line strategy, or the cross-line regex matches
\* the clean text from the beginning of that line
HeadingBeginsOn(key, s) ==
    \/ s \in Strategy1Hits(key)
    \/ s \in Strategy2Hits(key)
    \/ s = Strategy3Hit(key)
    \/ /\ key \in DOMAIN FALLBACK_HEAD_RXS
       /\ fallback_find_head(Join(Slice(lines, s, Len(lines))), FALLBACK_HEAD_RXS[key]) = 0

\* C26: the start of every resolved section, a start found by the
\* cross-line search of the raw text included, is a place of the clean
\* lines, 0 <= start < number of clean lines, and the clean line at that
\* place is the line on which the heading match begins.
C26_StartOnCleanLine ==
    pc \in {"fallback_clean", "done"} =>
        \A key \in DOMAIN section_positions :
            /\ 0 <= section_positions[key]
            /\ section_positions[key] < Len(lines)
            /\ HeadingBeginsOn(key, section_positions[key])

\* ------------------------------------------------------------------------
\* Documents with boilerplate: a line inside the first HEADER_SCAN_LINES
\* lines and two lines after them, all away from the edges of the page
\* ------------------------------------------------------------------------
REV == <<"R", "e", "v", ".", " ", "2">>
REV_WIDE == <<"R", "E", "V", ".", " ", " ", "2">>
\* running text that names the document number
PROSE_DOC == <<"s", "e", "e", " ", "mun", "seo", "beon", "ho", " ", "7">>
\* the product-name field of section 1 with a document number as its value
H1_PRODUCT_DOC == <<"1", ".", " ", "je", "pum", "myeong", ":", " ", "mun", "seo", "beon", "ho", " ", "7">>

EarlyCatalogue == {DOC_NUMBER, REV, BODY, PROSE_DOC}
LateCatalogue == {DOC_NUMBER, REV_WIDE, BODY, PROSE_DOC, H1_PRODUCT, H1_PRODUCT_DOC}

\* the line a at the place PAGE_EDGE_LINES, the lines b and c at the places
\* HEADER_SCAN_LINES and HEADER_SCAN_LINES + 1, running text elsewhere
HeaderPage(a, b, c) ==
    Notes(PAGE_EDGE_LINES) \o <<a>> \o Notes(HEADER_SCAN_LINES - PAGE_EDGE_LINES - 1)
        \o <<b, c>> \o Notes(PAGE_EDGE_LINES)

HeaderDocs ==
    {CorruptPdf(FileA)}
    \cup {TextPdf(FileA, <<Join(HeaderPage(a, b, c))>>) :
             a \in EarlyCatalogue, b \in LateCatalogue, c \in LateCatalogue}

InitHeaders == BatchIdle /\ \E doc \in HeaderDocs : PipelineStart(doc)

SpecHeaders == InitHeaders /\ [][Next]_vars

\* the start line of the section is a line of its body
StartLineInBody(key) ==
    /\ windows[key].start < Len(lines)
    /\ KeptLines(windows[key].start, windows[key].start + 1) # <<>>
    /\ sections[key] = Join(KeptLines(windows[key].start, windows[key].end))

\* C21: the body of a section includes the start line of the section if and
\* only if the section is section 1 and its start line is a product-name
\* field line; in every other case the body is cut from start+1 and the
\* heading line is left out.
C21_StartLineForProductName ==
    Returned =>
        \A key \in DOMAIN sections :
            /\ StartLineInBody(key) <=> StartsOnProductName(key)
            /\ ~StartsOnProductName(key) =>
                   sections[key] = Join(KeptLines(windows[key].start + 1, windows[key].end))

\* the lines remove_repeated_headers is given
RawLines == Split(full_text_raw)

\* the normalised forms of the lines among the first HEADER_SCAN_LINES
\* lines of xs that the boilerplate detector accepts
DetectedHeaders(xs) ==
    {normalize_text(xs[j]) :
        j \in {k \in DOMAIN xs : k <= HEADER_SCAN_LINES /\ is_header_line(xs[k])}}

\* the places of the lines of xs with the normalised form of a detected line
RepeatedPlaces(xs) ==
    LET detected == DetectedHeaders(xs)
    IN  {i \in DOMAIN xs : normalize_text(xs[i]) \in detected}

\* C22: remove_repeated_headers returns its input lines in their order less
\* exactly the lines whose whitespace-stripped, lower-cased form is that of
\* a line among the first 10 that the boilerplate detector accepts; every
\* other line is kept unchanged at its place among the kept lines.
C22_RepeatedHeadersOnly ==
    pc = "clean" =>
        LET given == RawLines
            gone == RepeatedPlaces(given)
            out == remove_repeated_headers(given)
        IN  /\ Len(out) = Len(given) - Cardinality(gone)
            /\ \A i \in DOMAIN given \ gone :
                   out[i - Cardinality({r \in gone : r < i})] = given[i]

\* a boilerplate line among the first 10 lines; after them a line written
\* differently with the same normalised form, which is removed, and a
\* boilerplate line of another form, which is kept
C22_Witness ==
    /\ pc = "clean"
    /\ LET given == RawLines
           gone == RepeatedPlaces(given)
       IN  /\ \E i \in gone :
                  /\ i > HEADER_SCAN_LINES
                  /\ \A j \in 1..HEADER_SCAN_LINES : given[j] # given[i]
           /\ \E i \in DOMAIN given \ gone :
                  /\ is_header_line(given[i])
                  /\ \E k \in DOMAIN lines : lines[k] = given[i]
           /\ Len(lines) = Len(given) - Cardinality(gone)

\* the places in header_patterns of the labels and notices (document and
\* MSDS number, revision date and number, the title of the form, GHS-MSDS,
\* rev. N, copyright, all rights reserved) and of the structural patterns
\* (the page markers N/M page, page N/M and -N/M- rev.)
LabelPatterns == {1, 2, 3, 4, 5, 6, 7, 11, 12, 13}
StructuralPatterns == {8, 9, 10}

\* the line is itself a boilerplate line: its normalised form begins with a
\* label or notice, or holds a structural pattern
ItselfBoilerplate(line) ==
    LET normalized == normalize_text(line)
    IN  \/ \E i \in LabelPatterns : SearchBol(normalized, header_patterns[i], FALSE)
        \/ \E i \in StructuralPatterns : Search(normalized, header_patterns[i], Flags(FALSE, FALSE))

\* C23: is_header_line never fires on a line that holds a boilerplate
\* keyword only inside a longer sentence; it fires only on lines that are
\* themselves the boilerplate line or that match a structural pattern.
C23_NoFiringInsideProse ==
    pc = "clean" =>
        LET given == RawLines
        IN  \A i \in DOMAIN given : is_header_line(given[i]) => ItselfBoilerplate(given[i])

\* ------------------------------------------------------------------------
\* Documents with numbered lists: the entries of a table of contents, a
\* section head and text
\* ------------------------------------------------------------------------
TocLen == 6

TocChoices(k) == {H3, BODY} \cup (IF k \in DOMAIN TocEntry THEN {TocEntry[k]} ELSE {})

TocDocs ==
    {TextPdf(FileA, <<Join(t)>>) :
        t \in UNION {{u \in [1..n -> {H3, BODY} \cup {TocEntry[k] : k \in DOMAIN TocEntry}] :
                         \A k \in 1..n : u[k] \in TocChoices(k)} : n \in 0..TocLen}}

InitToc == BatchIdle /\ \E doc \in TocDocs : PipelineStart(doc)

SpecToc == InitToc /\ [][Next]_vars

Cleaned == pc = "clean"

\* the lines strip_toc_block is given
TocInput == remove_repeated_headers(Split(full_text_raw))

\* lines i..j of xs are a maximal run of lines that begin with an enumeration
MaximalRun(xs, i, j) ==
    /\ i <= j
    /\ \A k \in i..j : Search(xs[k], TOCNUM, Flags(FALSE, FALSE))
    /\ i = 1 \/ ~Search(xs[i - 1], TOCNUM, Flags(FALSE, FALSE))
    /\ j = Len(xs) \/ ~Search(xs[j + 1], TOCNUM, Flags(FALSE, FALSE))

\* the line matches a strategy-1 pattern of some canonical section
Strategy1Line(line) ==
    \E key \in CanonicalKeys : \E p \in DOMAIN find_section_patterns[key] :
        Search(FlattenSpaces(line), find_section_patterns[key][p], Flags(TRUE, FALSE))

\* the run xs[i..j] lies in ys as it is: every line, in order, contiguous
KeptVerbatim(xs, i, j, ys) ==
    \E o \in 1..(Len(ys) - (j - i)) : SubSeq(ys, o, o + (j - i)) = SubSeq(xs, i, j)

\* the thresholds of a table-of-contents block, the section heads left aside
MeetsTocThresholds(buf) ==
    /\ Len(buf) >= 5
    /\ Cardinality({EnumNumber(buf[k]) : k \in DOMAIN buf}) >= 5
    /\ \A k \in DOMAIN buf : EnumNumber(buf[k]) <= 16
    /\ TotalLen(buf) <= 40 * Len(buf)
    /\ 2 * Cardinality({k \in DOMAIN buf : HasTocKeyword(buf[k])}) >= Len(buf)

\* C3: a maximal run of enumerated lines that holds a line matching a
\* strategy-1 heading pattern is kept verbatim by strip_toc_block.
C3_TocProtection ==
    Cleaned =>
        LET given == TocInput
        IN  \A i \in DOMAIN given : \A j \in DOMAIN given :
                (MaximalRun(given, i, j) /\ \E k \in i..j : Strategy1Line(given[k]))
                    => KeptVerbatim(given, i, j, lines)

\* a run that meets every threshold of a table of contents and is kept
\* because one of its lines is a section head
C3_Witness ==
    /\ Cleaned
    /\ LET given == TocInput
       IN  \E i \in DOMAIN given : \E j \in DOMAIN given :
               /\ MaximalRun(given, i, j)
               /\ MeetsTocThresholds(SubSeq(given, i, j))
               /\ \E k \in i..j : Strategy1Line(given[k])
               /\ KeptVerbatim(given, i, j, lines)

\* ------------------------------------------------------------------------
\* Documents with runs of numbered lines at the thresholds of
\* strip_toc_block
\* ------------------------------------------------------------------------
MaxRunLines == 6

\* the entry of a run, filled with text up to a width
RunEntry(num, keyed, width) ==
    LET e == PageEntry(num, keyed)
    IN  e \o [k \in 1..(width - Len(e)) |-> "a"]

\* a run of n entries numbered from first, the first j of them with a
\* keyword; the last number repeats the one before it (dup); the entries are
\* short (wide = 0), of 40 characters (1), or of 40 and the last one of 41 (2)
Run(first, n, j, dup, wide) ==
    [k \in 1..n |->
        RunEntry(IF dup /\ k = n THEN first + n - 2 ELSE first + k - 1,
                 k <= j,
                 IF wide = 0 THEN 0
                 ELSE IF wide = 2 /\ k = n THEN TOC_MAX_AVG_LEN + 1 ELSE TOC_MAX_AVG_LEN)]

\* a run that meets the thresholds and holds the heading of section 3
HeadRun == <<TocEntry[1], TocEntry[2], H3, TocEntry[4], TocEntry[5]>>

RunKinds == {Run(1, 5, 5, FALSE, 0), Run(1, 4, 4, FALSE, 0), Run(1, 5, 2, FALSE, 0), HeadRun}

TocRunDocs ==
    {CorruptPdf(FileA)}
    \cup {TextPdf(FileA, <<Join(Run(first, n, j, dup, 0))>>) :
             first \in {0, 1, 12}, n \in (MaxRunLines - 2)..MaxRunLines,
             j \in {2, 3, MaxRunLines}, dup \in BOOLEAN}
    \cup {TextPdf(FileA, <<Join(Run(1, n, n, FALSE, wide))>>) :
             n \in (MaxRunLines - 2)..MaxRunLines, wide \in 1..2}
    \cup {TextPdf(FileA, <<Join(a \o <<BODY>> \o b \o <<BODY>>)>>) : a \in RunKinds, b \in RunKinds}

InitTocRun == BatchIdle /\ \E doc \in TocRunDocs : PipelineStart(doc)

SpecTocRun == InitTocRun /\ [][Next]_vars

\* the maximal runs of xs, as pairs of their first and last place
Runs(xs) == {r \in (DOMAIN xs) \X (DOMAIN xs) : MaximalRun(xs, r[1], r[2])}

\* xs without the lines of the runs in dropped
WithoutRuns(xs, dropped) ==
    AtPlaces(xs, {k \in DOMAIN xs : ~\E r \in dropped : r[1] <= k /\ k <= r[2]})

\* the numbers that lead the lines of a run
RunNumbers(buf) == {EnumNumber(buf[k]) : k \in DOMAIN buf}

\* the removal rule with the distinct numbers counted in the range 1..16
RemovedAsStated(buf) ==
    /\ Len(buf) >= 5
    /\ Cardinality(RunNumbers(buf) \cap 1..16) >= 5
    /\ Cardinality(RunNumbers(buf) \cap 1..16) <= 16
    /\ TotalLen(buf) <= 40 * Len(buf)
    /\ 2 * Cardinality({k \in DOMAIN buf : HasTocKeyword(buf[k])}) >= Len(buf)
    /\ ~\E k \in DOMAIN buf : Strategy1Line(buf[k])

\* the removal rule with every number of the run counted and none above 16
RemovedByRule(buf) ==
    /\ MeetsTocThresholds(buf)
    /\ ~\E k \in DOMAIN buf : Strategy1Line(buf[k])

\* C25 as stated: strip_toc_block removes a maximal run exactly when it has
\* 5 lines or more, between 5 and 16 distinct numbers in the range 1..16, an
\* average length of at most 40, a keyword in half of its lines or more and
\* no strategy-1 heading; every other run is kept.
C25_RemovedOnCountInRange ==
    Cleaned =>
        LET given == TocInput
        IN  lines = WithoutRuns(given, {r \in Runs(given) : RemovedAsStated(SubSeq(given, r[1], r[2]))})

\* C25: strip_toc_block removes a maximal run exactly when it has 5 lines or
\* more, 5 or more distinct leading numbers of any value, no leading number
\* above 16, an average length of at most 40, a keyword in half of its lines
\* or more and no strategy-1 heading; every other run is kept.
C25_RemovedOnMaxNumber ==
    Cleaned =>
        LET given == TocInput
        IN  lines = WithoutRuns(given, {r \in Runs(given) : RemovedByRule(SubSeq(given, r[1], r[2]))})

\* a run numbered 0..4 is removed, with four of its numbers in 1..16
C25_Witness ==
    /\ Cleaned
    /\ LET given == TocInput
       IN  /\ Runs(given) = {<<1, 5>>}
           /\ RunNumbers(given) = 0..4
           /\ RemovedByRule(given)
           /\ lines = <<>>

\* C27: strip_toc_block only drops whole runs: its output is its input less
\* the lines of some of the maximal runs of enumerated lines; every line
\* that does not begin with an enumeration is kept, and every run is kept
\* whole and contiguous or dropped whole.
C27_WholeRunsOnly ==
    Cleaned =>
        LET given == TocInput
        IN  \E dropped \in SUBSET Runs(given) : lines = WithoutRuns(given, dropped)

\* two runs with text between them: the first one is dropped, the second
\* one, too short, is kept with the text
C27_Witness ==
    /\ Cleaned
    /\ LET given == TocInput
       IN  /\ Cardinality(Runs(given)) = 2
           /\ \E r \in Runs(given) : \E s \in Runs(given) :
                  /\ r[2] < s[1]
                  /\ lines = WithoutRuns(given, {r})
                  /\ KeptVerbatim(given, s[1], s[2], lines)
           /\ \E k \in DOMAIN lines : EnumNumber(lines[k]) = -1

\* C28: strip_toc_block is idempotent: a second pass over its output
\* removes nothing.
C28_Idempotent ==
    Cleaned => strip_toc_block(lines) = lines

\* a run was removed and a run that begins with an enumeration is left,
\* which the second pass keeps
C28_Witness ==
    /\ Cleaned
    /\ LET given == TocInput
       IN  /\ Len(lines) < Len(given)
           /\ \E r \in Runs(lines) : r[2] - r[1] >= 4
    /\ strip_toc_block(lines) = lines

\* ------------------------------------------------------------------------
\* Documents with a heading that occurs more than once
\* ------------------------------------------------------------------------
MaxRepeatLines == 6
MaxBoundedLines == 4
MaxTitledLines == 3

\* the heading of section 3 with its full title, which names the content
\* column of a composition table
H3_FULL == <<"3", ".", " ", "gu", "seong", "seong", "bun", "qui", " ", "myeong", "ching", " ",
             "mich", " ", "ham", "qyu", "ryang">>

SelectDocs ==
    {TextPdf(FileA, <<Join(t)>>) : t \in SeqsUpTo({H2, BODY}, MaxRepeatLines)}
    \cup {TextPdf(FileA, <<Join(t)>>) : t \in SeqsUpTo({H9, BODY, BULLET10, BLANK}, MaxBoundedLines)}
    \cup {TextPdf(FileA, <<Join(t)>>) : t \in SeqsUpTo({H3, H3_COLON, CAS_LINE, BODY}, MaxBoundedLines)}
    \cup {TextPdf(FileA, <<Join(t)>>) : t \in SeqsUpTo({H3, H3_FULL, BODY}, MaxTitledLines)}

InitSelect == BatchIdle /\ \E doc \in SelectDocs : PipelineStart(doc)

SpecSelect == InitSelect /\ [][Next]_vars

StartsFound == pc = "strategies"

\* the set of the candidates of a key
CandidateSet(key) ==
    LET c == StartCandidates(lines, find_section_patterns[key], key)
    IN  {c[k] : k \in DOMAIN c}

\* the trial end of the candidate s
TrialEnd(key, s) ==
    IF key \in DOMAIN BOUNDARY_NEXT_NUMBER
    THEN find_next_boundary_for(lines, s, BOUNDARY_NEXT_NUMBER[key])
    ELSE IF \E c \in CandidateSet(key) : c > s
         THEN Min({c \in CandidateSet(key) : c > s})
         ELSE Len(lines)

\* the lines strictly between s and its trial end that are neither blank nor
\* boilerplate
BodyCount(key, s) ==
    Cardinality({i \in (s + 1)..(TrialEnd(key, s) - 1) :
                    Strip(LineAt(i)) # <<>> /\ ~is_header_line(LineAt(i))})

\* the score of a candidate: its body count, and for the composition section
\* 50 more with a composition table ahead and 30 less on a sentence-like line
CandidateScore(key, s) ==
    IF key = "k3"
    THEN BodyCount(key, s)
         + (IF has_composition_table_header_ahead(lines, s, 20) THEN 50 ELSE 0)
         - (IF looks_like_sentence(LineAt(s)) THEN 30 ELSE 0)
    ELSE BodyCount(key, s)

\* C10 as stated: of several candidates the one with the highest body count
\* is returned, the later one among equals.
C10_HighestBodyCount ==
    StartsFound =>
        \A key \in CanonicalKeys :
            Cardinality(CandidateSet(key)) >= 2 =>
                LET top == Max({BodyCount(key, s) : s \in CandidateSet(key)})
                IN  section_positions[key] = Max({s \in CandidateSet(key) : BodyCount(key, s) = top})

\* C10: of several candidates select_best_start returns the one with the
\* highest score, the later one among equals, where the score is the body
\* count (for the composition section 50 more with a composition table ahead
\* and 30 less on a sentence-like line); when the highest score is at most 1
\* it returns the last candidate.
C10_HighestScore ==
    StartsFound =>
        \A key \in CanonicalKeys :
            Cardinality(CandidateSet(key)) >= 2 =>
                LET top == Max({CandidateScore(key, s) : s \in CandidateSet(key)})
                IN  section_positions[key] =
                        IF top <= 1 THEN Max(CandidateSet(key))
                        ELSE Max({s \in CandidateSet(key) : CandidateScore(key, s) = top})

\* two candidates of a section other than the composition section, and the
\* earlier one is returned for its higher body count
C10_Witness ==
    /\ StartsFound
    /\ \E key \in CanonicalKeys \ {"k3"} :
           /\ Cardinality(CandidateSet(key)) >= 2
           /\ section_positions[key] < Max(CandidateSet(key))
           /\ \A s \in CandidateSet(key) \ {section_positions[key]} :
                  BodyCount(key, s) < BodyCount(key, section_positions[key])

\* the places of the clean lines that match a strategy-1 pattern of the key
MatchingLines(key) ==
    {i \in 0..(Len(lines) - 1) :
        MatchesAny(FlattenSpaces(LineAt(i)), find_section_patterns[key])}

\* the matching lines that find_all_section_starts passes over: for the
\* composition section the lines that look like a sentence
PassedOver(key) ==
    {i \in MatchingLines(key) : key = "k3" /\ looks_like_sentence(FlattenSpaces(LineAt(i)))}

\* the list is strictly ascending: every index once, in order
Ascending(c) == \A a \in DOMAIN c : \A b \in DOMAIN c : a < b => c[a] < c[b]

\* C18 as stated: find_all_section_starts returns, ascending and each once,
\* exactly the places of the clean lines that match a strategy-1 pattern
\* of the section; no matching line is left out.
C18_AllMatchingLines ==
    StartsFound =>
        \A key \in CanonicalKeys :
            LET c == find_all_section_starts(lines, find_section_patterns[key], key)
            IN  /\ Ascending(c)
                /\ {c[k] : k \in DOMAIN c} = MatchingLines(key)

\* C18: find_all_section_starts returns, ascending and each once, exactly
\* the places of the clean lines that match a strategy-1 pattern of the
\* section, less, for the composition section, the matching lines that look
\* like a sentence.
C18_AllButSentences ==
    StartsFound =>
        \A key \in CanonicalKeys :
            LET c == find_all_section_starts(lines, find_section_patterns[key], key)
            IN  /\ Ascending(c)
                /\ {c[k] : k \in DOMAIN c} = MatchingLines(key) \ PassedOver(key)

\* the composition heading three times, once ending in a colon: two starts
\* are returned and the sentence-like line between them is passed over
C18_Witness ==
    /\ StartsFound
    /\ LET c == find_all_section_starts(lines, find_section_patterns["k3"], "k3")
       IN  /\ Len(c) = 2
           /\ \E i \in PassedOver("k3") : c[1] < i /\ i < c[2]

C29_ResultIsCandidate ==
    StartsFound =>
        \A key \in CanonicalKeys :
            LET c == StartCandidates(lines, find_section_patterns[key], key)
                r == select_best_start(lines, c, key)
            IN  /\ r = -1 <=> c = <<>>
                /\ c # <<>> => /\ r \in {c[k] : k \in DOMAIN c}
                               /\ section_positions[key] = r

\* a section with three candidates of which the middle one is returned,
\* and a section without candidates, for which -1 is returned
C29_Witness ==
    /\ StartsFound
    /\ \E key \in CanonicalKeys :
           LET c == StartCandidates(lines, find_section_patterns[key], key)
           IN  /\ Len(c) = 3
               /\ select_best_start(lines, c, key) = c[2]
    /\ \E key \in CanonicalKeys :
           /\ StartCandidates(lines, find_section_patterns[key], key) = <<>>
           /\ select_best_start(lines, <<>>, key) = -1

\* ------------------------------------------------------------------------
\* render: the uploads are read, then processed one after the other
\* ------------------------------------------------------------------------
PipelineIdle ==
    /\ pdf = OtherFile(<<>>, "empty")
    /\ pc = "idle"
    /\ page_texts = <<>>
    /\ full_text_raw = <<>>
    /\ lines = <<>>
    /\ full_text_clean = <<>>
    /\ section_positions = EmptyMap
    /\ windows = EmptyMap
    /\ sections = EmptyMap
    /\ error = ""

\* entries are built from the uploads; without uploads render returns
ReadFiles ==
    /\ bpc = "upload"
    /\ IF uploaded_files = <<>>
       THEN /\ entries' = entries
            /\ bpc' = "no_upload"
       ELSE /\ entries' = ReadEntries(uploaded_files, name_filter)
            /\ bpc' = "loop"
    /\ UNCHANGED <<uploaded_files, name_filter, rows, row_sections>>
    /\ UNCHANGED pipeline_vars

\* extract_sections(str(temp)) is entered for a document
PipelineCall(doc) ==
    /\ pdf' = doc
    /\ pc' = "start"
    /\ page_texts' = <<>>
    /\ full_text_raw' = <<>>
    /\ lines' = <<>>
    /\ full_text_clean' = <<>>
    /\ section_positions' = EmptyMap
    /\ windows' = EmptyMap
    /\ sections' = EmptyMap
    /\ error' = ""

\* extract_sections is left: its locals are gone
PipelineReturn ==
    /\ pdf' = OtherFile(<<>>, "empty")
    /\ pc' = "idle"
    /\ page_texts' = <<>>
    /\ full_text_raw' = <<>>
    /\ lines' = <<>>
    /\ full_text_clean' = <<>>
    /\ section_positions' = EmptyMap
    /\ windows' = EmptyMap
    /\ sections' = EmptyMap
    /\ error' = ""

\* the top of one iteration of: for i, ent in enumerate(entries, start=1).
\* An entry without the %PDF header gets its row at once, for the others
\* extract_sections is called.
BeginEntry ==
    /\ bpc = "loop"
    /\ Len(rows) < Len(entries)
    /\ LET ent == entries[Len(rows) + 1]
           sections0 == LoopInitSections(row_sections)
       IN  /\ row_sections' = sections0
           /\ IF ent.kind # "pdf"
              THEN /\ rows' = Append(rows, InvalidRow(ent, sections0))
                   /\ bpc' = bpc
                   /\ UNCHANGED pipeline_vars
              ELSE /\ rows' = rows
                   /\ bpc' = "call"
                   /\ PipelineCall(ent)
    /\ UNCHANGED <<uploaded_files, name_filter, entries>>

\* extract_sections has returned or raised: the row of the entry is
\* appended, unless the exception leaves the loop
EndEntry ==
    /\ bpc = "call"
    /\ pc \in {"done", "raised"}
    /\ LET ent == entries[Len(rows) + 1]
           r == CallGuarded([raised |-> pc = "raised", error |-> error, sections |-> sections])
           row == ProcessRow(ent, r, row_sections)
       IN  IF r.escapes
           THEN /\ bpc' = "aborted"
                /\ rows' = rows
                /\ row_sections' = row_sections
           ELSE /\ bpc' = "loop"
                /\ rows' = Append(rows, row)
                /\ row_sections' = row.sections
    /\ PipelineReturn
    /\ UNCHANGED <<uploaded_files, name_filter, entries>>

\* the loop is over
FinishLoop ==
    /\ bpc = "loop"
    /\ Len(rows) = Len(entries)
    /\ bpc' = "done"
    /\ UNCHANGED <<uploaded_files, name_filter, entries, rows, row_sections>>
    /\ UNCHANGED pipeline_vars

NextBatch ==
    \/ ReadFiles
    \/ BeginEntry
    \/ ExtractTextPages
    \/ JoinAndClean
    \/ FindStarts
    \/ FallbackRaw
    \/ FallbackClean
    \/ BuildBodies
    \/ EndEntry
    \/ FinishLoop

MaxEntries == 3

Uploads ==
    {OtherFile(FileA, "empty"),
     OtherFile(FileB, "other"),
     CorruptPdf(FileA),
     TextPdf(FileA, <<Join(<<H3, BODY>>)>>),
     TextPdf(FileB, <<Join(<<H1_PRODUCT, BODY>>)>>)}

NameFilters == {<<>>, <<"A">>}

InitBatch ==
    /\ PipelineIdle
    /\ uploaded_files \in SeqsUpTo(Uploads, MaxEntries)
    /\ name_filter \in NameFilters
    /\ entries = <<>>
    /\ rows = <<>>
    /\ row_sections = EmptyMap
    /\ bpc = "upload"

SpecBatch == InitBatch /\ [][NextBatch]_vars

\* the entry is a document for which extract_sections raises
Raises(ent) == ent.kind = "pdf" /\ ~ent.readable

\* C6: in a batch a document for which extract_sections raises gets its own
\* row with status ERROR and the message, and every later document is still
\* processed and gets its row: the loop is never left early, and at its end
\* there is one row per entry, in order.
C6_BatchContinues ==
    /\ bpc # "aborted"
    /\ bpc \in {"loop", "call", "done"} =>
           /\ Len(rows) <= Len(entries)
           /\ \A k \in DOMAIN rows :
                  /\ rows[k].file = entries[k].name
                  /\ Raises(entries[k]) =>
                         rows[k].status = "ERROR" /\ rows[k].err = PDF_OPEN_ERROR
    /\ bpc = "done" => Len(rows) = Len(entries)

\* a finished batch in which a document raised and a later document has its
\* row with its sections
C6_Witness ==
    /\ bpc = "done"
    /\ \E k \in DOMAIN rows : \E m \in DOMAIN rows :
           /\ k < m
           /\ Raises(entries[k])
           /\ rows[k].status = "ERROR"
           /\ rows[m].status = "OK"
           /\ DOMAIN rows[m].sections # {}

NotPdf(ent) == ent.kind # "pdf"

\* the rows of the entries without the %PDF header
InvalidRowsEmpty ==
    \A k \in DOMAIN rows :
        NotPdf(entries[k]) =>
            /\ rows[k].file = entries[k].name
            /\ rows[k].status = "INVALID"
            /\ rows[k].sections = EmptyMap

\* the iteration of an entry without the %PDF header: its row is appended,
\* extract_sections is not entered, no document is written to a temporary
\* path, and the loop stays at its top for the next entry
InvalidEntryStep ==
    (bpc = "loop" /\ Len(rows) < Len(entries) /\ NotPdf(entries[Len(rows) + 1])) =>
        /\ pc = "idle" /\ pc' = "idle"
        /\ pdf' = pdf
        /\ pipeline_vars' = pipeline_vars
        /\ Len(rows') = Len(rows) + 1
        /\ bpc' = "loop"

\* C30: in the upload loop an entry whose bytes do not begin with %PDF gets
\* a row with status INVALID and an empty section map; extract_sections is
\* not called and no temporary file is written for it, and the loop goes on
\* with the next entry.
C30_InvalidEntrySkipped == [](InvalidRowsEmpty) /\ [][InvalidEntryStep]_vars

\* a finished batch of three entries: a document with sections, an entry
\* without the header, whose row is INVALID with an empty section map, and
\* a document that is processed after it
C30_Witness ==
    /\ bpc = "done"
    /\ Len(rows) = 3
    /\ rows[1].status = "OK" /\ DOMAIN rows[1].sections # {}
    /\ NotPdf(entries[2]) /\ rows[2].status = "INVALID" /\ rows[2].sections = EmptyMap
    /\ rows[3].status = "OK" /\ DOMAIN rows[3].sections # {}

====
